---- MODULE Spec2Model ----
(***************************************************************************)
(* The automation engine of utils/automationEngine.js (src/unnamed/        *)
(* part_009) with the AutomationHook model (src/models/Address.js,         *)
(* lines 110-243).                                                         *)
(*                                                                         *)
(* One invocation of triggerAutomation is a process that moves from one    *)
(* await of the code to the next; several invocations interleave at their  *)
(* awaits.  The hooks collection is the only shared state.                 *)
(***************************************************************************)
EXTENDS Integers, Sequences, FiniteSets, TLC

(* ------------------------------ bounds -------------------------------- *)
\* invocations of triggerAutomation started in one behaviour of SpecSeq
SeqRuns == 2
\* invocations of triggerAutomation started in one behaviour of SpecCap
CapRuns == 2
\* readings of the clock advance it up to this value
MaxTime == 1
\* collaborator calls (database, mailer, push service) that throw in one
\* behaviour
MaxFaults == 2
\* invocations of triggerAutomation started in one behaviour of SpecRace
RaceRuns == 3

(* ------------------------- program constants -------------------------- *)
\* the tax rate of an invoice whose action configures none
DefaultTaxRate == 18
\* the GST rate at which a booking is priced
GstRate == 18
\* executionLogs keeps the last 100 entries
LogCap == 100

Procs == {1, 2}
HookIds == {1, 2}
\* the writers of invoices: the generate_invoice action of the engine,
\* autoGenerateInvoice and the route POST /generate
Generators == {"generateInvoice", "autoGenerateInvoice", "POST /generate"}
\* the runs of the feedback reminder job
JobRuns == {1, 2}
\* the completed bookings the job finds
Bookings == {1, 2}

VARIABLES
    hooks,      \* the AutomationHook collection: hook id -> stored document
    setup,      \* the deployment: the earlier executions of each hook, how many
                \* invocations the callers let overlap, how many they start
    pc,         \* per invocation: the await it is at
    ev,         \* per invocation: eventName
    arg,        \* per invocation: the _id of the payload passed as data
    data,       \* the payload objects by _id (live, shared by hooks and timers)
    queue,      \* per invocation: the loaded hook documents, in processing order
    idx,        \* per invocation: position in queue of the hook being processed
    ai,         \* per invocation: position in hook.actions of the next action
    result,     \* per invocation: "none" | "pending" | "resolved" | "rejected"
    calls,      \* per invocation: what the invocation did so far, in order
    timers,     \* pending setTimeout callbacks of delayed actions
    now,        \* the clock read by new Date()
    nextId,     \* _id of the next payload
    runs,       \* invocations started so far
    faults,     \* collaborator calls that threw so far
    hist,       \* per hook: the log entries the saves of this behaviour
                \* persisted, in the order of the saves
    invoiceDocs, \* the Invoice collection: the documents saved, in order
    counter,    \* seq of the Counter document of the invoice ids
    gen,        \* per generator of invoices: the await it is at and the id
                \* it minted
    bookings,   \* the Booking collection as the reminder job reads it
    job,        \* per run of the reminder job: the await it is at, the
                \* bookings its query returned and the one it is processing
    triggered   \* per booking: the calls triggerAutomation('feedback.reminder')

\* what the engine reads and writes
engine == <<hooks, setup, pc, ev, arg, data, queue, idx, ai, result, calls,
            timers, now, nextId, runs, faults, hist>>
\* what the callers of the engine and the other writers of invoices keep
around == <<invoiceDocs, counter, gen, bookings, job, triggered>>
vars == <<engine, around>>

(* ------------------------------ events -------------------------------- *)
\* the enum of automationHookSchema.triggerEvent
TriggerEvents ==
    {"booking.created", "booking.confirmed", "booking.assigned",
     "booking.in_progress", "booking.completed", "booking.cancelled",
     "booking.rescheduled", "payment.initiated", "payment.received",
     "payment.failed", "feedback.submitted", "feedback.reminder",
     "invoice.generated"}

(* ------------------------------ values -------------------------------- *)
\* a JavaScript value read from the payload or configured in a condition
Undef == [t |-> "undefined", n |-> 0, s |-> ""]
Num(k) == [t |-> "number", n |-> k, s |-> ""]
Str(x) == [t |-> "string", n |-> 0, s |-> x]
Null == [t |-> "null", n |-> 0, s |-> ""]
Bool(b) == [t |-> "boolean", n |-> IF b THEN 1 ELSE 0, s |-> ""]

\* the payload: a Booking or a Payment document with its linked user, the
\* city of its linked address and the invoices stored for it; populated
\* holds the references that are populated.  discount and
\* feedbackReminderSent have the defaults of bookingSchema; customerNotes is
\* a value, undefined when not set
\* a booking as router.post('/') prices it: the taxes at the GST rate on the
\* base price, the total the base price plus the taxes less the discount
Priced(d, basePrice, discount) ==
    [d EXCEPT !.basePrice = basePrice,
              !.taxes = (basePrice * GstRate) \div 100,
              !.discount = discount,
              !.totalAmount = basePrice + (basePrice * GstRate) \div 100
                              - discount]

Payload(kind, id, email, token) ==
    [kind |-> kind, id |-> id, status |-> "Pending", statusHistory |-> <<>>,
     populated |-> {}, email |-> email, fcmToken |-> token,
     discount |-> 0, feedbackReminderSent |-> FALSE, customerNotes |-> Undef,
     city |-> "", assignedTechnician |-> "", assignedAt |-> <<>>,
     invoices |-> <<>>, modified |-> FALSE,
     basePrice |-> 100, taxes |-> (100 * GstRate) \div 100,
     totalAmount |-> 100 + (100 * GstRate) \div 100]

\* what the callers pass in: the event name, and the model name, the linked
\* user's email and the linked user's push token of the payload
Inputs ==
    {<<"booking.created", "Booking", "a@x.com", "tok">>,
     <<"booking.created", "Booking", "", "">>,
     <<"payment.received", "Payment", "a@x.com", "">>,
     <<"booking.archived", "Booking", "a@x.com", "tok">>}

\* the calls of a deployment by name: pairs of event name and payload
Docs(ins) == {<<in[1], Payload(in[2], 0, in[3], in[4])>> : in \in ins}

\* bookings for the hooks with conditions: one with the defaults and no
\* linked email, one with a discount, notes and a city
EvalInputs ==
    {<<"booking.created", Payload("Booking", 0, "", "tok")>>,
     <<"booking.created",
       [Payload("Booking", 0, "a@x.com", "tok") EXCEPT
           !.discount = 5, !.customerNotes = Str("fine"), !.city = "Pune"]>>}

\* bookings for the hooks that exercise the actions: one with a linked
\* user that has an email and a push token, in a city with technicians, and
\* one whose user has neither, in a city without technicians
ActInputs ==
    {<<"booking.created",
       [Priced(Payload("Booking", 0, "a@x.com", "tok"), 200, 5) EXCEPT
           !.customerNotes = Str("fine"), !.city = "Pune",
           !.feedbackReminderSent = TRUE]>>,
     <<"booking.created",
       [Payload("Booking", 0, "", "") EXCEPT
           !.customerNotes = Null, !.city = "Goa"]>>}

InputsOf(name) ==
    CASE name = "conditions" -> EvalInputs
      [] name = "actions" -> ActInputs
      [] name = "one" -> {<<"booking.created", Payload("Booking", 0, "", "")>>}
      [] OTHER -> Docs(Inputs)

(* -------------------------- pure functions ---------------------------- *)
\* getNestedValue(obj, path): the paths the payload carries; any other path
\* runs into a missing key and yields undefined
getNestedValue(d, path) ==
    CASE path = "status" -> Str(d.status)
      [] path = "_id" -> Num(d.id)
      [] path = "userId.email" ->
            IF "userId" \in d.populated /\ d.email # ""
            THEN Str(d.email) ELSE Undef
      [] path = "addressId.city" ->
            IF "addressId" \in d.populated /\ d.city # ""
            THEN Str(d.city) ELSE Undef
      [] path = "discount" -> Num(d.discount)
      [] path = "feedbackReminderSent" -> Bool(d.feedbackReminderSent)
      [] path = "customerNotes" -> d.customerNotes
      [] OTHER -> Undef

\* !value of JavaScript
Falsy(v) == \/ v.t \in {"undefined", "null"}
            \/ v.t = "string" /\ v.s = ""
            \/ v.t \in {"number", "boolean"} /\ v.n = 0

\* a === b
StrictEq(a, b) == a = b

\* the strings of the model in code-unit order
Alphabetical == <<"", "Assigned", "Cancelled", "Confirmed", "Pending",
                  "Pune", "a@x.com", "end", "fine", "firm", "ops@x.com", "tok",
                  "undefined">>
Rank(x) == CHOOSE i \in 1..Len(Alphabetical) : Alphabetical[i] = x

\* whether ToNumber(v) is a number and not NaN: undefined and the non-empty
\* strings of the model (none of them numeric) convert to NaN; null, false
\* and the empty string convert to 0, true to 1
Numeric(v) == \/ v.t \in {"number", "null", "boolean"}
              \/ v.t = "string" /\ v.s = ""

\* a < b and a <= b of JavaScript: two strings by code units, anything else
\* by ToNumber; a comparison that goes through NaN is false
JsLess(a, b) ==
    IF a.t = "string" /\ b.t = "string" THEN Rank(a.s) < Rank(b.s)
    ELSE Numeric(a) /\ Numeric(b) /\ a.n < b.n
JsLessEq(a, b) ==
    IF a.t = "string" /\ b.t = "string" THEN Rank(a.s) <= Rank(b.s)
    ELSE Numeric(a) /\ Numeric(b) /\ a.n <= b.n

\* String(value)
JsString(v) == CASE v.t = "undefined" -> "undefined"
                 [] v.t = "null" -> "null"
                 [] v.t = "boolean" -> IF v.n = 1 THEN "true" ELSE "false"
                 [] v.t = "string" -> v.s
                 [] OTHER -> ToString(v.n)

\* a.includes(b) for the strings of the model: b is empty, a itself, or a
\* listed fragment of a
Fragments == {<<"Pending", "end">>, <<"Confirmed", "firm">>,
              <<"undefined", "fine">>}
Includes(a, b) == b = "" \/ a = b \/ <<a, b>> \in Fragments

\* the enum of automationHookSchema.conditions.operator
KnownOperators == {"eq", "ne", "gt", "lt", "gte", "lte", "contains", "in"}

\* conditionHolds with a default case that breaks instead of returning false
conditionHoldsUnknownPasses(c, d) ==
    LET value == getNestedValue(d, c.field) IN
    CASE c.operator = "eq" -> StrictEq(value, c.value)
      [] c.operator = "ne" -> ~StrictEq(value, c.value)
      [] c.operator = "gt" -> ~JsLessEq(value, c.value)
      [] c.operator = "lt" -> ~JsLessEq(c.value, value)
      [] c.operator = "gte" -> ~JsLess(value, c.value)
      [] c.operator = "lte" -> ~JsLess(c.value, value)
      [] c.operator = "contains" -> Includes(JsString(value), c.value.s)
      [] c.operator = "in" ->
            c.isArray /\ \E i \in 1..Len(c.list) : StrictEq(c.list[i], value)
      [] OTHER -> TRUE

\* one condition of evaluateConditions: TRUE when the switch does not
\* return false
conditionHolds(c, d) ==
    LET value == getNestedValue(d, c.field) IN
    CASE c.operator = "eq" -> StrictEq(value, c.value)
      [] c.operator = "ne" -> ~StrictEq(value, c.value)
      [] c.operator = "gt" -> ~JsLessEq(value, c.value)
      [] c.operator = "lt" -> ~JsLessEq(c.value, value)
      [] c.operator = "gte" -> ~JsLess(value, c.value)
      [] c.operator = "lte" -> ~JsLess(c.value, value)
      [] c.operator = "contains" -> Includes(JsString(value), c.value.s)
      [] c.operator = "in" ->
            c.isArray /\ \E i \in 1..Len(c.list) : StrictEq(c.list[i], value)
      [] OTHER -> FALSE

\* evaluateConditions returning true from inside the loop, after the first
\* condition that holds
evaluateConditionsFirstOnly(conditions, d) ==
    conditions = <<>> \/ conditionHolds(Head(conditions), d)

\* the loop of evaluateConditions: the first condition whose case returns
\* false ends it; the end of the list returns true
RECURSIVE evaluateConditions(_, _)
evaluateConditions(conditions, d) ==
    IF conditions = <<>> THEN TRUE
    ELSE IF ~conditionHolds(Head(conditions), d) THEN FALSE
    ELSE evaluateConditions(Tail(conditions), d)

\* the test of triggerAutomation before the actions of a hook
conditionsMet(hook, d) ==
    Len(hook.conditions) > 0 => evaluateConditions(hook.conditions, d)

\* the templates of the model and what the regular expression of
\* interpolate, /\{\{([^}]+)\}\}/g, finds in them: the text between the
\* matches, and for each match its text and the group it captured
UserEmailTemplate == "{{userId.email}}"
Text(x) == [hole |-> FALSE, text |-> x, path |-> ""]
Hole(match, path) == [hole |-> TRUE, text |-> match, path |-> path]
Parts(template) ==
    CASE template = UserEmailTemplate ->
            <<Hole("{{userId.email}}", "userId.email")>>
      [] template = "Off {{discount}}!" ->
            <<Text("Off "), Hole("{{discount}}", "discount"), Text("!")>>
      [] template = "{{feedbackReminderSent}}" ->
            <<Hole("{{feedbackReminderSent}}", "feedbackReminderSent")>>
      [] template = "Note: {{customerNotes}}" ->
            <<Text("Note: "), Hole("{{customerNotes}}", "customerNotes")>>
      [] template = "{{addressId.city}}/{{rating.stars}}" ->
            <<Hole("{{addressId.city}}", "addressId.city"), Text("/"),
              Hole("{{rating.stars}}", "rating.stars")>>
      [] template = "{{ status }}" ->
            <<Hole("{{ status }}", " status ")>>
      [] OTHER -> <<Text(template)>>

\* path.trim()
Trim(path) == IF path = " status " THEN "status" ELSE path

\* template.replace(...): each match is replaced by what the callback
\* returns, the value of the path or else the match, as a string
RECURSIVE Replaced(_, _)
Replaced(parts, d) ==
    IF parts = <<>> THEN ""
    ELSE LET part == Head(parts)
             v == getNestedValue(d, Trim(part.path))
         IN  (IF part.hole /\ ~Falsy(v) THEN JsString(v) ELSE part.text)
             \o Replaced(Tail(parts), d)

\* interpolate(template, data); a missing template is ""
interpolate(template, d) ==
    IF template = "" THEN "" ELSE Replaced(Parts(template), d)

(* --------------------- the parts of a hook document ------------------- *)
Cond(field, operator, value) ==
    [field |-> field, operator |-> operator, value |-> value,
     isArray |-> FALSE, list |-> <<>>]

\* an element of hook.actions; config carries the keys the actions read, ""
\* for a key that is not set
Act(type, to, status, delay) ==
    [type |-> type,
     config |-> [to |-> to, status |-> status, subject |-> "", body |-> "",
                 strategy |-> "", criteria |-> {}, taxRate |-> Undef],
     delay |-> delay]
\* a send_email action with its templates
Mail(to, subject, body) ==
    [Act("send_email", to, "", 0) EXCEPT !.config.subject = subject,
                                         !.config.body = body]
\* an assign_technician action with its strategy
Assign(strategy) ==
    [Act("assign_technician", "", "", 0) EXCEPT !.config.strategy = strategy]
\* a generate_invoice action with a tax rate
InvoiceAt(taxRate) ==
    [Act("generate_invoice", "", "", 0) EXCEPT !.config.taxRate = Num(taxRate)]
\* an assign_technician action with criteria, a set of <<field, value>>
AssignWith(strategy, criteria) ==
    [Assign(strategy) EXCEPT !.config.criteria = criteria]

\* an element of hook.executionLogs
LogEntry(at, success, error, event, dataId) ==
    [executedAt |-> at, success |-> success, error |-> error,
     data |-> [event |-> event, dataId |-> dataId]]

(* ----------------------------- the clock ------------------------------ *)
\* what new Date() can return when the previous reading was t
Ticks(t) == {u \in {t, t + 1} : u <= MaxTime}

(* ------------------------- what is observed --------------------------- *)
\* an entry of calls: k is the kind of step, h the hook, a the position of
\* the action in hook.actions (0 when none), x a detail.  The kinds:
\*   find, populate, findUser, mail, push, saveBooking   collaborator calls
\*   skip        the conditions of hook h were not met
\*   exec        action a of hook h was run inline
\*   sched       action a of hook h was handed to setTimeout
\*   late        the timer ran action a of hook h
\*   throw       inline action a of hook h threw x
\*   saveThrow   the save of hook h threw x
\*   findThrow, populateThrow, unhandled   the other places an error arises
\*   log         a log entry of hook h was persisted, x its outcome
Ev(k, h, a, x) == [k |-> k, h |-> h, a |-> a, x |-> x]

(* ------------------------------ actions ------------------------------- *)
\* an outcome of an action: whether it threw, the message of the error,
\* the payload it leaves and the collaborator calls it made
Outcome(thrown, msg, d, did) ==
    [thrown |-> thrown, msg |-> msg, d |-> d, did |-> did]

\* sendEmail preferring the email of the linked user to config.to
sendEmailUserFirst(config, d) ==
    LET needs == "userId" \notin d.populated \/ d.email = ""
        d1 == [d EXCEPT !.populated = @ \cup {"userId"}]
        pre == IF needs THEN <<Ev("populate", 0, 0, "userId")>> ELSE <<>>
        to == IF d1.email # "" THEN d1.email ELSE interpolate(config.to, d1)
        subject == interpolate(config.subject, d1)
        body == interpolate(config.body, d1)
        sent == <<Ev("mail", 0, 0,
                     [to |-> to, subject |-> subject,
                      html |-> IF body # "" THEN body
                               ELSE "<p>" \o subject \o "</p>"])>>
    IN  (IF needs
         THEN {Outcome(TRUE, "populate failed", d, pre)} ELSE {})
        \cup
        (IF to = ""
         THEN {Outcome(FALSE, "", d1, pre)}
         ELSE {Outcome(FALSE, "", d1, pre \o sent),
               Outcome(TRUE, "mail failed", d1, pre \o sent)})

\* sendEmail(config, data)
sendEmail(config, d) ==
    LET needs == "userId" \notin d.populated \/ d.email = ""
        d1 == [d EXCEPT !.populated = @ \cup {"userId"}]
        pre == IF needs THEN <<Ev("populate", 0, 0, "userId")>> ELSE <<>>
        to == IF interpolate(config.to, d1) # ""
              THEN interpolate(config.to, d1) ELSE d1.email
        subject == interpolate(config.subject, d1)
        body == interpolate(config.body, d1)
        sent == <<Ev("mail", 0, 0,
                     [to |-> to, subject |-> subject,
                      html |-> IF body # "" THEN body
                               ELSE "<p>" \o subject \o "</p>"])>>
    IN  (IF needs
         THEN {Outcome(TRUE, "populate failed", d, pre)} ELSE {})
        \cup
        (IF to = ""
         THEN {Outcome(FALSE, "", d1, pre)}
         ELSE {Outcome(FALSE, "", d1, pre \o sent),
               Outcome(TRUE, "mail failed", d1, pre \o sent)})

\* sendPushNotification(config, data)
sendPushNotification(config, d) ==
    LET find == <<Ev("findUser", 0, 0, "")>> IN
    {Outcome(TRUE, "db failed", d, find)}
    \cup
    (IF d.fcmToken = ""
     THEN {Outcome(FALSE, "", d, find)}
     ELSE {Outcome(FALSE, "", d, find \o <<Ev("push", 0, 0, d.fcmToken)>>),
           Outcome(TRUE, "push failed", d,
                   find \o <<Ev("push", 0, 0, d.fcmToken)>>)})

\* an entry of booking.statusHistory
HistoryEntry(status, notes) == [status |-> status, notes |-> notes]

\* data.status = status: the path is marked modified when the value differs
\* from the one the document holds; modified is isModified('status')
SetStatus(d, status) ==
    [d EXCEPT !.status = status, !.modified = @ \/ status # d.status]

\* bookingSchema.pre('save'): a booking whose status is modified gets one
\* more history entry, with the notes of the booking
bookingPreSave(d) ==
    IF d.modified
    THEN [d EXCEPT !.statusHistory =
                      Append(@, HistoryEntry(d.status, d.customerNotes))]
    ELSE d

\* data.save() of a booking: the two ways it ends, with the document it
\* leaves in memory.  The hook runs before the write; a write that succeeds
\* resets the modified paths
bookingSave(d) ==
    [ok |-> [bookingPreSave(d) EXCEPT !.modified = FALSE],
     failed |-> bookingPreSave(d)]

\* updateStatus(config, data)
updateStatus(config, d) ==
    IF d.kind = "Booking"
    THEN LET d1 == [SetStatus(d, config.status) EXCEPT
                        !.statusHistory =
                            Append(@, HistoryEntry(config.status,
                                          Str("Updated by automation")))]
             did == <<Ev("saveBooking", 0, 0, config.status)>>
         IN  {Outcome(FALSE, "", bookingSave(d1).ok, did),
              Outcome(TRUE, "db failed", bookingSave(d1).failed, did)}
    ELSE {Outcome(FALSE, "", d, <<>>)}

\* sendSMS recording on the booking that the customer was notified
sendSMSMarksBooking(config, d) ==
    {Outcome(FALSE, "", SetStatus(d, "Notified"), <<>>)}

\* sendSMS(config, data): the gateway is not implemented; the message is
\* only written to the console
sendSMS(config, d) == {Outcome(FALSE, "", d, <<>>)}

\* the users of the collection, in the order find returns them
User(id, role, isApproved, city) ==
    [id |-> id, role |-> role, isApproved |-> isApproved, city |-> city]
Users ==
    <<User("u0", "technician", FALSE, "Pune"),
      User("t1", "technician", TRUE, "Pune"),
      User("a1", "admin", TRUE, "Pune"),
      User("t2", "technician", TRUE, "Pune"),
      User("t3", "technician", TRUE, "Mumbai")>>

\* lines 305-317: the query for the technicians of a city, with the fields
\* of config.criteria assigned over it
Query(city, criteria) ==
    LET query == [role |-> "technician", isApproved |-> TRUE, city |-> city]
    IN  [k \in DOMAIN query |->
            IF \E c \in criteria : c[1] = k
            THEN (CHOOSE c \in criteria : c[1] = k)[2]
            ELSE query[k]]

\* User.find(query)
UserFind(query) ==
    SelectSeq(Users, LAMBDA u : \A k \in DOMAIN query : u[k] = query[k])

\* the ids of the approved technicians User.find returns for a city
Directory(city) ==
    [i \in DOMAIN UserFind(Query(city, {})) |->
        UserFind(Query(city, {}))[i].id]

\* assignTechnician without the test of lines 321-324: with no technician
\* found, reading the _id of technicians[0] throws
assignTechnicianNoGuard(config, d) ==
    IF d.kind # "Booking" THEN {Outcome(FALSE, "", d, <<>>)}
    ELSE
    LET needs == "addressId" \notin d.populated \/ d.city = ""
        d1 == [d EXCEPT !.populated = @ \cup {"addressId"}]
        pre == (IF needs THEN <<Ev("populate", 0, 0, "addressId")>> ELSE <<>>)
               \o <<Ev("findTechs", 0, 0, d1.city)>>
        found == UserFind(Query(d1.city, config.criteria))
        technicians == [i \in DOMAIN found |-> found[i].id]
        chosen == IF config.strategy = "random"
                  THEN {technicians[i] : i \in DOMAIN technicians}
                  ELSE {technicians[1]}
        assigned(t) == [SetStatus(d1, "Assigned") EXCEPT
                           !.assignedTechnician = t,
                           !.assignedAt = <<now>>,
                           !.statusHistory =
                               Append(@, HistoryEntry("Assigned",
                                             Str("Auto-assigned")))]
        did == pre \o <<Ev("saveBooking", 0, 0, "Assigned")>>
    IN  (IF needs
         THEN {Outcome(TRUE, "populate failed", d,
                       <<Ev("populate", 0, 0, "addressId")>>)}
         ELSE {})
        \cup {Outcome(TRUE, "db failed", d1, pre)}
        \cup (IF technicians = <<>>
              THEN {Outcome(TRUE, "Cannot read properties of undefined", d1,
                            pre)}
              ELSE {Outcome(FALSE, "", bookingSave(assigned(t)).ok, did) :
                       t \in chosen} \cup
                   {Outcome(TRUE, "db failed", bookingSave(assigned(t)).failed,
                            did) : t \in chosen})

\* assignTechnician(config, data)
assignTechnician(config, d) ==
    IF d.kind # "Booking" THEN {Outcome(FALSE, "", d, <<>>)}
    ELSE
    LET needs == "addressId" \notin d.populated \/ d.city = ""
        d1 == [d EXCEPT !.populated = @ \cup {"addressId"}]
        pre == (IF needs THEN <<Ev("populate", 0, 0, "addressId")>> ELSE <<>>)
               \o <<Ev("findTechs", 0, 0, d1.city)>>
        found == UserFind(Query(d1.city, config.criteria))
        technicians == [i \in DOMAIN found |-> found[i].id]
        chosen == IF config.strategy = "random"
                  THEN {technicians[i] : i \in DOMAIN technicians}
                  ELSE {technicians[1]}
        assigned(t) == [SetStatus(d1, "Assigned") EXCEPT
                           !.assignedTechnician = t,
                           !.assignedAt = <<now>>,
                           !.statusHistory =
                               Append(@, HistoryEntry("Assigned",
                                             Str("Auto-assigned")))]
        did == pre \o <<Ev("saveBooking", 0, 0, "Assigned")>>
    IN  (IF needs
         THEN {Outcome(TRUE, "populate failed", d,
                       <<Ev("populate", 0, 0, "addressId")>>)}
         ELSE {})
        \cup {Outcome(TRUE, "db failed", d1, pre)}
        \cup (IF technicians = <<>>
              THEN {Outcome(FALSE, "", d1, pre)}
              ELSE {Outcome(FALSE, "", bookingSave(assigned(t)).ok, did) :
                       t \in chosen} \cup
                   {Outcome(TRUE, "db failed", bookingSave(assigned(t)).failed,
                            did) : t \in chosen})

\* the Invoice document of lines 392-410
Invoice(config, d) ==
    [bookingId |-> d.id, paymentStatus |-> "Unpaid", paidAmount |-> 0,
     subtotal |-> d.basePrice,
     taxRate |-> IF Falsy(config.taxRate) THEN DefaultTaxRate
                 ELSE config.taxRate.n,
     taxAmount |-> d.taxes,
     discount |-> d.discount,
     totalAmount |-> d.totalAmount]

\* generateInvoice without the lookup of lines 371-375
generateInvoiceNoLookup(config, d) ==
    LET d1 == [d EXCEPT !.populated = @ \cup {"userId", "addressId"}]
        pop == <<Ev("populate", 0, 0, "invoice")>>
        mint == pop \o <<Ev("mintId", 0, 0, "")>>
        save == mint \o <<Ev("saveInvoice", 0, 0, "")>>
    IN  {Outcome(TRUE, "populate failed", d, pop),
         Outcome(TRUE, "id failed", d1, mint),
         Outcome(TRUE, "db failed", d1, save),
         Outcome(FALSE, "", [d1 EXCEPT !.invoices = Append(@, Invoice(config, d))],
                 save)}

\* generateInvoice(config, data); invoices holds the Invoice documents whose
\* bookingId is the _id of the payload
generateInvoice(config, d) ==
    LET look == <<Ev("findInvoice", 0, 0, "")>>
        d1 == [d EXCEPT !.populated = @ \cup {"userId", "addressId"}]
        pop == look \o <<Ev("populate", 0, 0, "invoice")>>
        mint == pop \o <<Ev("mintId", 0, 0, "")>>
        save == mint \o <<Ev("saveInvoice", 0, 0, "")>>
    IN  {Outcome(TRUE, "db failed", d, look)}
        \cup
        (IF d.invoices # <<>>
         THEN {Outcome(FALSE, "", d, look)}
         ELSE {Outcome(TRUE, "populate failed", d, pop),
               Outcome(TRUE, "id failed", d1, mint),
               Outcome(TRUE, "db failed", d1, save),
               Outcome(FALSE, "",
                       [d1 EXCEPT !.invoices = Append(@, Invoice(config, d))], save)})

\* requestFeedback(config, data) and sendPaymentReminder(config, data): a
\* push notification with a fixed title and body
requestFeedback(config, d) == sendPushNotification(config, d)
sendPaymentReminder(config, d) == sendPushNotification(config, d)

\* executeAction with a default case that throws
executeActionUnknownThrows(action, d) ==
    CASE action.type = "send_email" -> sendEmail(action.config, d)
      [] action.type = "send_sms" -> sendSMS(action.config, d)
      [] action.type = "send_push_notification" ->
            sendPushNotification(action.config, d)
      [] action.type = "update_status" -> updateStatus(action.config, d)
      [] action.type = "assign_technician" ->
            assignTechnician(action.config, d)
      [] action.type = "generate_invoice" -> generateInvoice(action.config, d)
      [] action.type = "request_feedback" -> requestFeedback(action.config, d)
      [] action.type = "send_payment_reminder" ->
            sendPaymentReminder(action.config, d)
      [] OTHER -> {Outcome(TRUE, "Unknown action type", d, <<>>)}

\* executeAction(action, data, hook): the outcomes the collaborators allow
executeAction(action, d) ==
    CASE action.type = "send_email" -> sendEmail(action.config, d)
      [] action.type = "send_sms" -> sendSMS(action.config, d)
      [] action.type = "send_push_notification" ->
            sendPushNotification(action.config, d)
      [] action.type = "update_status" -> updateStatus(action.config, d)
      [] action.type = "assign_technician" ->
            assignTechnician(action.config, d)
      [] action.type = "generate_invoice" -> generateInvoice(action.config, d)
      [] action.type = "request_feedback" -> requestFeedback(action.config, d)
      [] action.type = "send_payment_reminder" ->
            sendPaymentReminder(action.config, d)
      [] OTHER -> {Outcome(FALSE, "", d, <<>>)}

(* ------------------------- the hook documents ------------------------- *)
Last(sq, n) == SubSeq(sq, Len(sq) - n + 1, Len(sq))

\* preSave with slice(0, 100): the oldest entries are kept
preSaveKeepsOldest(local) ==
    IF Len(local.doc.executionLogs) > LogCap
    THEN [local EXCEPT !.doc.executionLogs = SubSeq(@, 1, LogCap),
                       !.sliced = TRUE]
    ELSE local

\* automationHookSchema.pre('save'); reassigning the array makes the save
\* write it whole
preSave(local) ==
    IF Len(local.doc.executionLogs) > LogCap
    THEN [local EXCEPT !.doc.executionLogs = Last(@, LogCap), !.sliced = TRUE]
    ELSE local

\* a document as AutomationHook.find returns it: the stored fields, the
\* entries pushed since, whether the array was reassigned, the modified paths
Loaded(h) ==
    [id |-> h, doc |-> hooks[h], pushed |-> <<>>, sliced |-> FALSE,
     dirty |-> {}]

\* lines 55-61: the statistics of a successful execution, t1 and t2 being
\* the two readings of the clock
recordSuccess(local, t1, t2, event, dataId) ==
    LET e == LogEntry(t2, TRUE, "", event, dataId) IN
    [local EXCEPT !.doc.executionCount = @ + 1,
                  !.doc.lastExecutedAt = <<t1>>,
                  !.doc.executionLogs = Append(@, e),
                  !.pushed = Append(@, e),
                  !.dirty = @ \cup {"executionCount", "lastExecutedAt"}]

\* recordFailure counting the failed execution as an execution too
recordFailureCountsExecution(local, t, msg, event, dataId) ==
    LET e == LogEntry(t, FALSE, msg, event, dataId) IN
    [local EXCEPT !.doc.failureCount = @ + 1,
                  !.doc.executionCount = @ + 1,
                  !.doc.executionLogs = Append(@, e),
                  !.pushed = Append(@, e),
                  !.dirty = @ \cup {"failureCount", "executionCount"}]

\* recordFailure stamping lastExecutedAt as the success path does
recordFailureStampsLast(local, t, msg, event, dataId) ==
    LET e == LogEntry(t, FALSE, msg, event, dataId) IN
    [local EXCEPT !.doc.failureCount = @ + 1,
                  !.doc.lastExecutedAt = <<t>>,
                  !.doc.executionLogs = Append(@, e),
                  !.pushed = Append(@, e),
                  !.dirty = @ \cup {"failureCount", "lastExecutedAt"}]

\* lines 68-74: the statistics of a failed execution
recordFailure(local, t, msg, event, dataId) ==
    LET e == LogEntry(t, FALSE, msg, event, dataId) IN
    [local EXCEPT !.doc.failureCount = @ + 1,
                  !.doc.executionLogs = Append(@, e),
                  !.pushed = Append(@, e),
                  !.dirty = @ \cup {"failureCount"}]

\* hook.save(): the modified paths are written.  A number is written as the
\* value the document holds, pushed entries are appended to the stored array,
\* and a reassigned array replaces the stored one provided the stored
\* version is the loaded one.
VersionConflict(local) == local.sliced /\ hooks[local.id].v # local.doc.v

\* Stored with the counters written as increments of the stored values
StoredIncrements(local) ==
    LET old == hooks[local.id]
        new == local.doc
    IN  [old EXCEPT
           !.executionCount =
               IF "executionCount" \in local.dirty THEN @ + 1 ELSE @,
           !.lastExecutedAt =
               IF "lastExecutedAt" \in local.dirty THEN new.lastExecutedAt ELSE @,
           !.failureCount =
               IF "failureCount" \in local.dirty THEN @ + 1 ELSE @,
           !.executionLogs =
               IF local.sliced THEN new.executionLogs ELSE @ \o local.pushed,
           !.v = @ + 1]

Stored(local) ==
    LET old == hooks[local.id]
        new == local.doc
    IN  [old EXCEPT
           !.executionCount =
               IF "executionCount" \in local.dirty THEN new.executionCount ELSE @,
           !.lastExecutedAt =
               IF "lastExecutedAt" \in local.dirty THEN new.lastExecutedAt ELSE @,
           !.failureCount =
               IF "failureCount" \in local.dirty THEN new.failureCount ELSE @,
           !.executionLogs =
               IF local.sliced THEN new.executionLogs ELSE @ \o local.pushed,
           !.v = @ + 1]

\* the log events of a save that succeeded
Logged(local) ==
    [i \in 1..Len(local.pushed) |->
        Ev("log", local.id, 0,
           IF local.pushed[i].success THEN "success" ELSE "failure")]

\* Matching without isActive: true in the filter
MatchingInactiveToo(event) ==
    {h \in HookIds : hooks[h].triggerEvent = event}

\* find({triggerEvent, isActive: true}).sort({priority: -1}): the orders
\* the sort allows, hooks of equal priority coming in either order
Matching(event) ==
    {h \in HookIds : hooks[h].triggerEvent = event /\ hooks[h].isActive}
\* Orders with sort({priority: 1})
OrdersAscending(S) ==
    {o \in [1..Cardinality(S) -> S] :
        /\ \A i, j \in DOMAIN o : i # j => o[i] # o[j]
        /\ \A i, j \in DOMAIN o :
              i < j => hooks[o[i]].priority <= hooks[o[j]].priority}

Orders(S) ==
    {o \in [1..Cardinality(S) -> S] :
        /\ \A i, j \in DOMAIN o : i # j => o[i] # o[j]
        /\ \A i, j \in DOMAIN o :
              i < j => hooks[o[i]].priority >= hooks[o[j]].priority}

\* Handler without the catch of lines 78-80
HandlerNoOuterCatch(site) ==
    CASE site = "populate" -> "inner"
      [] site \in {"action", "save_try"} -> "hook"
      [] OTHER -> "none"

\* Handler without the catch of lines 64-76: what an action or the save
\* throws reaches the catch of lines 78-80
HandlerNoHookCatch(site) ==
    CASE site = "populate" -> "inner"
      [] OTHER -> "outer"

\* where an error thrown at a site of triggerAutomation is caught:
\* "hook" is the catch of lines 64-76, "outer" the catch of lines 78-80,
\* "inner" the catch inside ensurePopulated, "none" no catch at all
Handler(site) ==
    CASE site = "find" -> "outer"
      [] site = "populate" -> "inner"
      [] site = "action" -> "hook"
      [] site = "save_try" -> "hook"
      [] site = "save_catch" -> "outer"
      [] OTHER -> "none"

(* ------------------------ the initial collection --------------------- *)
\* the configurations an administrator gives a hook (schema lines 112-197)
Config(event, active, priority, conditions, actions) ==
    [triggerEvent |-> event, isActive |-> active, priority |-> priority,
     conditions |-> conditions, actions |-> actions]

ConfirmOnCreate ==
    Config("booking.created", TRUE, 10, <<>>,
           <<Act("send_email", UserEmailTemplate, "", 0),
             Act("update_status", "", "Confirmed", 0)>>)
NotifyPending ==
    Config("booking.created", TRUE, 5,
           <<Cond("status", "eq", Str("Pending"))>>,
           <<Act("send_push_notification", "", "", 0),
             Act("send_email", "ops@x.com", "", 60)>>)
FollowUp ==
    Config("booking.created", TRUE, 1, <<>>,
           <<Act("send_email", "", "", 0)>>)
CancelOnCreate ==
    Config("booking.created", FALSE, 10, <<>>,
           <<Act("update_status", "", "Cancelled", 0)>>)
FaxOnPayment ==
    Config("payment.received", TRUE, 5,
           <<Cond("status", "ne", Str("Cancelled"))>>,
           <<Act("send_fax", "", "", 0),
             Act("update_status", "", "Confirmed", 0)>>)
FaxLater ==
    Config("payment.received", TRUE, 5, <<>>,
           <<Act("send_fax", "", "", 60)>>)

\* the conditions the hooks of SpecEval are built from: every operator of
\* the schema, fields the payload has and a field it lacks (rating), a path
\* whose intermediate segment can be missing, and an operator outside the
\* schema's enum
CondIn(field, list) ==
    [field |-> field, operator |-> "in", value |-> Undef, isArray |-> TRUE,
     list |-> list]
CondPool ==
    {Cond("status", "eq", Str("Pending")),
     Cond("status", "ne", Str("Pending")),
     Cond("discount", "gt", Num(3)),
     Cond("discount", "lte", Num(0)),
     Cond("rating", "gt", Num(3)),
     Cond("rating", "lt", Num(3)),
     Cond("rating", "gte", Num(3)),
     Cond("rating", "lte", Num(3)),
     Cond("addressId.city", "gte", Str("Assigned")),
     Cond("customerNotes", "contains", Str("fine")),
     CondIn("status", <<Str("Confirmed"), Str("Pending")>>),
     Cond("status", "regex", Str("Pending"))}
MaxConds == 2
CondLists ==
    UNION {[1..n -> CondPool] : n \in 0..MaxConds}
FilteredFax(conditions) ==
    Config("booking.created", TRUE, 5, conditions,
           <<Act("send_fax", "", "", 0), Act("send_fax", "", "", 60)>>)

\* the hooks of SpecActs
Templates ==
    {"Off {{discount}}!", "{{feedbackReminderSent}}", "Note: {{customerNotes}}",
     "{{addressId.city}}/{{rating.stars}}", "{{ status }}"}
InvoiceTwice ==
    Config("booking.created", TRUE, 10, <<>>,
           <<Act("generate_invoice", "", "", 0),
             Act("generate_invoice", "", "", 0),
             Act("generate_invoice", "", "", 60)>>)
AssignThenMail ==
    Config("booking.created", TRUE, 5, <<>>,
           <<Assign("random"), Mail("", "Off {{discount}}!", "")>>)
Quiet ==
    Config("booking.created", TRUE, 10, <<>>,
           <<Mail("", "{{ status }}", ""),
             Act("request_feedback", "", "", 0),
             Act("send_payment_reminder", "", "", 0),
             Act("send_fax", "", "", 0),
             Act("send_sms", "", "", 0),
             Act("send_push_notification", "", "", 0),
             Act("update_status", "", "Confirmed", 0)>>)
AssignFirst ==
    Config("booking.created", TRUE, 5, <<>>, <<Assign("least_busy")>>)
InvoiceAtRate ==
    Config("booking.created", TRUE, 10, <<>>, <<InvoiceAt(12)>>)
AssignAdmin ==
    Config("booking.created", TRUE, 5, <<>>,
           <<AssignWith("highest_rated", {<<"role", "admin">>})>>)
MailWith(to, subject, body) ==
    Config("booking.created", TRUE, 5, <<>>, <<Mail(to, subject, body)>>)
MailWhen(status) ==
    Config("booking.created", TRUE, 5, <<Cond("status", "eq", Str(status))>>,
           <<Mail("ops@x.com", "{{ status }}", "")>>)
ActCollections ==
    {<<InvoiceTwice, AssignThenMail>>, <<Quiet, AssignFirst>>,
     <<AssignFirst, MailWith("ops@x.com", "{{ status }}", "")>>,
     <<Quiet, AssignAdmin>>, <<InvoiceAtRate, AssignFirst>>,
     <<ConfirmOnCreate, MailWhen("Confirmed")>>,
     <<ConfirmOnCreate, MailWhen("Pending")>>}
    \cup {<<MailWith(to, subject, body), CancelOnCreate>> :
             to \in {"", UserEmailTemplate, "ops@x.com"},
             subject \in Templates,
             body \in {"", "Note: {{customerNotes}}"}}

\* the collections the behaviours start from: hook id -> configuration
Collections ==
    { <<NotifyPending, ConfirmOnCreate>>,
      <<FollowUp, NotifyPending>>,
      <<CancelOnCreate, FaxOnPayment>> }

\* the executions a hook has behind it when the behaviour starts: k earlier
\* sequential executions, every third of them failed, of payloads 1..k
EarlierEntry(event, i) ==
    LogEntry(0, i % 3 # 0, IF i % 3 # 0 THEN "" ELSE "mail failed", event, i)
EarlierLogs(event, k) == [i \in 1..k |-> EarlierEntry(event, i)]
Successes(log) == Cardinality({i \in 1..Len(log) : log[i].success})

\* lastExecutedAt is <<>> while unset and <<t>> once set
NewHook(cfg, k) ==
    LET log == EarlierLogs(cfg.triggerEvent, k) IN
    [triggerEvent |-> cfg.triggerEvent, isActive |-> cfg.isActive,
     priority |-> cfg.priority, conditions |-> cfg.conditions,
     actions |-> cfg.actions,
     executionCount |-> Successes(log),
     failureCount |-> k - Successes(log),
     lastExecutedAt |-> IF Successes(log) > 0 THEN <<0>> ELSE <<>>,
     executionLogs |-> log,
     v |-> k]

\* what every initial state shares
\* nothing but the engine runs: no invoice is stored, no generator was
\* called, no run of the reminder job was fired
InitAround ==
    /\ invoiceDocs = <<>>
    /\ counter = 0
    /\ gen = [g \in Generators |-> [pc |-> "idle", invoiceId |-> 0]]
    /\ bookings = [b \in Bookings |->
                     [feedbackReminderSent |-> FALSE, feedback |-> b = 2]]
    /\ job = [r \in JobRuns |-> [pc |-> "idle", found |-> <<>>, i |-> 0]]
    /\ triggered = [b \in Bookings |-> 0]

InitRest ==
    /\ InitAround
    /\ pc = [p \in Procs |-> "idle"]
    /\ ev = [p \in Procs |-> "booking.created"]
    /\ arg = [p \in Procs |-> 0]
    /\ data = <<>>
    /\ queue = [p \in Procs |-> <<>>]
    /\ idx = [p \in Procs |-> 0]
    /\ ai = [p \in Procs |-> 0]
    /\ result = [p \in Procs |-> "none"]
    /\ calls = <<>>
    /\ timers = {}
    /\ now = 0
    /\ runs = 0
    /\ faults = 0
    /\ hist = [h \in HookIds |-> <<>>]

\* one invocation of triggerAutomation against a collection of new hooks
Init ==
    /\ setup = [earlier |-> [h \in HookIds |-> 0], parallel |-> 1, runs |-> 1,
                inputs |-> "plain"]
    /\ \E c \in Collections : hooks = [h \in HookIds |-> NewHook(c[h], 0)]
    /\ nextId = 1
    /\ InitRest

\* a hook that has LogCap - 1 executions behind it and a new one, the
\* callers raising one event at a time
InitSeq ==
    /\ setup = [earlier |-> [h \in HookIds |-> IF h = 1 THEN LogCap - 1 ELSE 0],
                parallel |-> 1, runs |-> SeqRuns, inputs |-> "plain"]
    /\ hooks = [h \in HookIds |->
                  IF h = 1 THEN NewHook(ConfirmOnCreate, LogCap - 1)
                  ELSE NewHook(FaxLater, 0)]
    /\ nextId = LogCap
    /\ InitRest

\* one invocation against hooks that exercise the actions
InitActs ==
    /\ setup = [earlier |-> [h \in HookIds |-> 0], parallel |-> 1, runs |-> 1,
                inputs |-> "actions"]
    /\ \E c \in ActCollections : hooks = [h \in HookIds |-> NewHook(c[h], 0)]
    /\ nextId = 1
    /\ InitRest

\* one invocation against a hook with conditions and an inactive hook
InitEval ==
    /\ setup = [earlier |-> [h \in HookIds |-> 0], parallel |-> 1, runs |-> 1,
                inputs |-> "conditions"]
    /\ \E cs \in CondLists :
         hooks = [h \in HookIds |->
                    IF h = 1 THEN NewHook(FilteredFax(cs), 0)
                    ELSE NewHook(CancelOnCreate, 0)]
    /\ nextId = 1
    /\ InitRest

\* a new hook without conditions and an inactive one, the callers raising
\* the same event concurrently
InitRace ==
    /\ setup = [earlier |-> [h \in HookIds |-> 0], parallel |-> 2,
                runs |-> RaceRuns, inputs |-> "one"]
    /\ hooks = [h \in HookIds |->
                  IF h = 1 THEN NewHook(FilteredFax(<<>>), 0)
                  ELSE NewHook(CancelOnCreate, 0)]
    /\ nextId = 1
    /\ InitRest

\* the same collection, each caller raising the event once, the invocations
\* running concurrently
InitPair ==
    /\ setup = [earlier |-> [h \in HookIds |-> 0],
                parallel |-> Cardinality(Procs),
                runs |-> Cardinality(Procs), inputs |-> "one"]
    /\ hooks = [h \in HookIds |->
                  IF h = 1 THEN NewHook(FilteredFax(<<>>), 0)
                  ELSE NewHook(CancelOnCreate, 0)]
    /\ nextId = 1
    /\ InitRest

\* the engine at rest: nobody calls triggerAutomation
InitIdle ==
    /\ setup = [earlier |-> [h \in HookIds |-> 0], parallel |-> 0, runs |-> 0,
                inputs |-> "plain"]
    /\ hooks = [h \in HookIds |-> NewHook(CancelOnCreate, 0)]
    /\ nextId = 1
    /\ InitRest

\* a hook that has LogCap - 1 executions behind it and a new one, the
\* callers raising events concurrently
InitCap ==
    /\ setup = [earlier |-> [h \in HookIds |-> IF h = 1 THEN LogCap - 1 ELSE 0],
                parallel |-> 2, runs |-> CapRuns, inputs |-> "plain"]
    /\ hooks = [h \in HookIds |->
                  IF h = 1 THEN NewHook(NotifyPending, LogCap - 1)
                  ELSE NewHook(CancelOnCreate, 0)]
    /\ nextId = LogCap
    /\ InitRest

(* ------------------------- triggerAutomation -------------------------- *)
Note(r, evs) == calls' = [calls EXCEPT ![r] = @ \o evs]

\* the hook document the invocation is processing
Current(p) == queue[p][idx[p]]

\* an error thrown at a site inside the loop over the hooks, after the
\* steps evs.  The catch of lines 64-76 counts the failure, pushes the
\* failure entry and calls save; the other catches end the invocation.
Raise(p, site, msg, evs) ==
    /\ Note(arg[p], evs \o <<Ev(IF site = "action" THEN "throw" ELSE "saveThrow",
                                  Current(p).id, ai[p], msg)>>)
    /\ IF Handler(site) = "hook"
       THEN \E t \in Ticks(now) :
              /\ now' = t
              /\ queue' = [queue EXCEPT ![p][idx[p]] =
                             preSave(recordFailure(@, t, msg, ev[p], arg[p]))]
              /\ pc' = [pc EXCEPT ![p] = "save_catch"]
              /\ UNCHANGED result
       ELSE /\ pc' = [pc EXCEPT ![p] = "idle"]
            /\ result' = [result EXCEPT ![p] =
                            IF Handler(site) = "none" THEN "rejected"
                            ELSE "resolved"]
            /\ UNCHANGED <<now, queue>>

\* the payloads still referenced: by a running invocation or by a timer
Live == {arg[q] : q \in {q \in Procs : pc[q] # "idle"}} \cup
        {t.run : t \in timers}

\* whether one more collaborator call may throw
MayFail == faults < MaxFaults
Fault == faults' = faults + 1

\* a caller calls triggerAutomation(eventName, data)
Start(p) ==
    /\ pc[p] = "idle"
    /\ runs < setup.runs
    /\ Cardinality({q \in Procs : pc[q] # "idle"}) < setup.parallel
    /\ \A q \in Procs : q < p => pc[q] # "idle"
    /\ \E in \in InputsOf(setup.inputs) :
         /\ ev' = [ev EXCEPT ![p] = in[1]]
         /\ data' = (nextId :> [in[2] EXCEPT !.id = nextId]) @@
                    [r \in Live |-> data[r]]
    /\ arg' = [arg EXCEPT ![p] = nextId]
    /\ calls' = (nextId :> <<>>) @@ [r \in Live |-> calls[r]]
    /\ nextId' = nextId + 1
    /\ runs' = runs + 1
    /\ pc' = [pc EXCEPT ![p] = "find"]
    /\ result' = [result EXCEPT ![p] = "pending"]
    /\ queue' = [queue EXCEPT ![p] = <<>>]
    /\ idx' = [idx EXCEPT ![p] = 0]
    /\ ai' = [ai EXCEPT ![p] = 0]
    /\ UNCHANGED <<around, hooks, hist, setup, timers, now, faults>>

\* lines 15-23: the find answers
Find(p) ==
    /\ pc[p] = "find"
    /\ IF Matching(ev[p]) = {}
       THEN /\ pc' = [pc EXCEPT ![p] = "idle"]
            /\ result' = [result EXCEPT ![p] = "resolved"]
            /\ UNCHANGED queue
       ELSE /\ \E o \in Orders(Matching(ev[p])) :
                 queue' = [queue EXCEPT ![p] =
                             [i \in DOMAIN o |-> Loaded(o[i])]]
            /\ pc' = [pc EXCEPT ![p] = "populate"]
            /\ UNCHANGED result
    /\ Note(arg[p], <<Ev("find", 0, 0, ev[p])>>)
    /\ UNCHANGED <<around, hooks, hist, setup, ev, arg, data, idx, ai, timers, now, nextId,
                   runs, faults>>

\* lines 15-18: the find throws
FindFails(p) ==
    /\ pc[p] = "find"
    /\ MayFail
    /\ Fault
    /\ Note(arg[p], <<Ev("find", 0, 0, ev[p]),
                       Ev("findThrow", 0, 0, "db failed")>>)
    /\ pc' = [pc EXCEPT ![p] = "idle"]
    /\ result' = [result EXCEPT ![p] =
                    IF Handler("find") = "none" THEN "rejected" ELSE "resolved"]
    /\ UNCHANGED <<around, hooks, hist, setup, ev, arg, data, queue, idx, ai, timers, now,
                   nextId, runs>>

\* line 28, ensurePopulated: the populate of the payload succeeds, or
\* throws into the catch of ensurePopulated
Populate(p) ==
    /\ pc[p] = "populate"
    /\ \E ok \in BOOLEAN :
         /\ ok \/ MayFail
         /\ faults' = IF ok THEN faults ELSE faults + 1
         /\ data' = [data EXCEPT ![arg[p]].populated =
                                     IF ok THEN {"userId", "addressId"} ELSE @]
         /\ Note(arg[p], IF ok THEN <<Ev("populate", 0, 0, "all")>>
                         ELSE <<Ev("populate", 0, 0, "all"),
                                Ev("populateThrow", 0, 0, "populate failed")>>)
         /\ IF ok \/ Handler("populate") = "inner"
            THEN /\ pc' = [pc EXCEPT ![p] = "hook"]
                 /\ idx' = [idx EXCEPT ![p] = 1]
                 /\ UNCHANGED result
            ELSE /\ pc' = [pc EXCEPT ![p] = "idle"]
                 /\ result' = [result EXCEPT ![p] =
                                 IF Handler("populate") = "none"
                                 THEN "rejected" ELSE "resolved"]
                 /\ UNCHANGED idx
    /\ UNCHANGED <<around, hooks, hist, setup, ev, arg, queue, ai, timers, now, nextId,
                   runs>>

\* NextHook without the continue of line 38: a hook whose conditions are
\* not met goes on to its actions
NextHookNoContinue(p) ==
    /\ pc[p] = "hook"
    /\ IF idx[p] > Len(queue[p])
       THEN /\ pc' = [pc EXCEPT ![p] = "idle"]
            /\ result' = [result EXCEPT ![p] = "resolved"]
            /\ UNCHANGED <<idx, ai, calls>>
       ELSE /\ IF conditionsMet(Current(p).doc, data[arg[p]])
               THEN UNCHANGED calls
               ELSE Note(arg[p], <<Ev("skip", Current(p).id, 0, "")>>)
            /\ pc' = [pc EXCEPT ![p] = "action"]
            /\ ai' = [ai EXCEPT ![p] = 1]
            /\ UNCHANGED <<idx, result>>
    /\ UNCHANGED <<around, hooks, hist, setup, ev, arg, data, queue, timers, now,
                   nextId, runs, faults>>

\* NextHook testing the conditions on the payload as the caller passed it
NextHookOnSnapshot(p) ==
    /\ pc[p] = "hook"
    /\ IF idx[p] > Len(queue[p])
       THEN /\ pc' = [pc EXCEPT ![p] = "idle"]
            /\ result' = [result EXCEPT ![p] = "resolved"]
            /\ UNCHANGED <<idx, ai, calls>>
       ELSE IF conditionsMet(Current(p).doc,
                             [data[arg[p]] EXCEPT !.status = "Pending"])
            THEN /\ pc' = [pc EXCEPT ![p] = "action"]
                 /\ ai' = [ai EXCEPT ![p] = 1]
                 /\ UNCHANGED <<idx, result, calls>>
            ELSE /\ Note(arg[p], <<Ev("skip", Current(p).id, 0, "")>>)
                 /\ idx' = [idx EXCEPT ![p] = @ + 1]
                 /\ UNCHANGED <<pc, ai, result>>
    /\ UNCHANGED <<around, hooks, hist, setup, ev, arg, data, queue, timers, now,
                   nextId, runs, faults>>

\* line 31 and lines 33-40: the loop takes the next hook, or ends
NextHook(p) ==
    /\ pc[p] = "hook"
    /\ IF idx[p] > Len(queue[p])
       THEN /\ pc' = [pc EXCEPT ![p] = "idle"]
            /\ result' = [result EXCEPT ![p] = "resolved"]
            /\ UNCHANGED <<idx, ai, calls>>
       ELSE IF conditionsMet(Current(p).doc, data[arg[p]])
            THEN /\ pc' = [pc EXCEPT ![p] = "action"]
                 /\ ai' = [ai EXCEPT ![p] = 1]
                 /\ UNCHANGED <<idx, result, calls>>
            ELSE /\ Note(arg[p], <<Ev("skip", Current(p).id, 0, "")>>)
                 /\ idx' = [idx EXCEPT ![p] = @ + 1]
                 /\ UNCHANGED <<pc, ai, result>>
    /\ UNCHANGED <<around, hooks, hist, setup, ev, arg, data, queue, timers, now, nextId,
                   runs, faults>>

\* lines 45-48: a delayed action is handed to setTimeout
Schedule(p) ==
    /\ pc[p] = "action"
    /\ ai[p] <= Len(Current(p).doc.actions)
    /\ LET action == Current(p).doc.actions[ai[p]] IN
         /\ action.delay > 0
         /\ timers' = timers \cup
                {[run |-> arg[p], h |-> Current(p).id, a |-> ai[p],
                  action |-> action]}
         /\ Note(arg[p], <<Ev("sched", Current(p).id, ai[p], action.type)>>)
    /\ ai' = [ai EXCEPT ![p] = @ + 1]
    /\ UNCHANGED <<around, hooks, hist, setup, pc, ev, arg, data, queue, idx, result, now,
                   nextId, runs, faults>>

\* Execute with the error of an action caught around the single action:
\* the loop goes on to the next action of the hook
ExecuteGoesOn(p) ==
    /\ pc[p] = "action"
    /\ ai[p] <= Len(Current(p).doc.actions)
    /\ LET action == Current(p).doc.actions[ai[p]]
           exec == <<Ev("exec", Current(p).id, ai[p], action.type)>>
       IN
         /\ ~(action.delay > 0)
         /\ \E out \in executeAction(action, data[arg[p]]) :
              /\ out.thrown => MayFail
              /\ faults' = IF out.thrown THEN faults + 1 ELSE faults
              /\ data' = [data EXCEPT ![arg[p]] = out.d]
              /\ Note(arg[p], exec \o out.did \o
                      (IF out.thrown
                       THEN <<Ev("throw", Current(p).id, ai[p], out.msg)>>
                       ELSE <<>>))
              /\ ai' = [ai EXCEPT ![p] = @ + 1]
              /\ UNCHANGED <<pc, queue, result, now>>
    /\ UNCHANGED <<around, hooks, hist, setup, ev, arg, idx, timers, nextId, runs>>

\* line 50: an action runs inline
Execute(p) ==
    /\ pc[p] = "action"
    /\ ai[p] <= Len(Current(p).doc.actions)
    /\ LET action == Current(p).doc.actions[ai[p]]
           exec == <<Ev("exec", Current(p).id, ai[p], action.type)>>
       IN
         /\ ~(action.delay > 0)
         /\ \E out \in executeAction(action, data[arg[p]]) :
              /\ out.thrown => MayFail
              /\ faults' = IF out.thrown THEN faults + 1 ELSE faults
              /\ data' = [data EXCEPT ![arg[p]] = out.d]
              /\ IF out.thrown
                 THEN /\ Raise(p, "action", out.msg, exec \o out.did)
                      /\ UNCHANGED ai
                 ELSE /\ Note(arg[p], exec \o out.did)
                      /\ ai' = [ai EXCEPT ![p] = @ + 1]
                      /\ UNCHANGED <<pc, queue, result, now>>
    /\ UNCHANGED <<around, hooks, hist, setup, ev, arg, idx, timers, nextId, runs>>

\* lines 54-62: after the last action the statistics are updated and save
\* is called
Record(p) ==
    /\ pc[p] = "action"
    /\ ai[p] > Len(Current(p).doc.actions)
    /\ \E t1 \in Ticks(now) : \E t2 \in Ticks(t1) :
         /\ now' = t2
         /\ queue' = [queue EXCEPT ![p][idx[p]] =
                        preSave(recordSuccess(@, t1, t2, ev[p], arg[p]))]
    /\ pc' = [pc EXCEPT ![p] = "save_try"]
    /\ UNCHANGED <<around, hooks, hist, setup, ev, arg, data, idx, ai, result, calls, timers,
                   nextId, runs, faults>>

\* lines 62 and 75: the save is applied to the collection
Save(p) ==
    /\ pc[p] \in {"save_try", "save_catch"}
    /\ ~VersionConflict(Current(p))
    /\ hooks' = [hooks EXCEPT ![Current(p).id] = Stored(Current(p))]
    /\ hist' = [hist EXCEPT ![Current(p).id] = @ \o Current(p).pushed]
    /\ Note(arg[p], Logged(Current(p)))
    /\ idx' = [idx EXCEPT ![p] = @ + 1]
    /\ pc' = [pc EXCEPT ![p] = "hook"]
    /\ UNCHANGED <<around, setup, ev, arg, data, queue, ai, result, timers, now,
                   nextId, runs, faults>>

\* lines 62 and 75: the save throws
SaveFails(p) ==
    /\ pc[p] \in {"save_try", "save_catch"}
    /\ IF VersionConflict(Current(p))
       THEN /\ Raise(p, pc[p], "VersionError", <<>>)
            /\ UNCHANGED faults
       ELSE /\ MayFail
            /\ Fault
            /\ Raise(p, pc[p], "db failed", <<>>)
    /\ UNCHANGED <<around, hooks, hist, setup, ev, arg, data, idx, ai, timers, nextId, runs>>

\* TimerFires with the error of the delayed action counted as a failure of
\* the hook
TimerFiresCountsFailure ==
    \E t \in timers :
      /\ timers' = timers \ {t}
      /\ \E out \in executeAction(t.action, data[t.run]) :
           /\ out.thrown => MayFail
           /\ faults' = IF out.thrown THEN faults + 1 ELSE faults
           /\ data' = [data EXCEPT ![t.run] = out.d]
           /\ hooks' = IF out.thrown
                       THEN [hooks EXCEPT ![t.h].failureCount = @ + 1]
                       ELSE hooks
           /\ Note(t.run,
                   <<Ev("late", t.h, t.a, t.action.type)>> \o out.did \o
                   (IF out.thrown THEN <<Ev("unhandled", t.h, t.a, out.msg)>>
                    ELSE <<>>))
      /\ UNCHANGED <<around, hist, setup, pc, ev, arg, queue, idx, ai, result, now,
                     nextId, runs>>

\* lines 46-48: the callback of setTimeout runs the delayed action; what it
\* throws is caught by nobody
TimerFires ==
    \E t \in timers :
      /\ timers' = timers \ {t}
      /\ \E out \in executeAction(t.action, data[t.run]) :
           /\ out.thrown => MayFail
           /\ faults' = IF out.thrown THEN faults + 1 ELSE faults
           /\ data' = [data EXCEPT ![t.run] = out.d]
           /\ Note(t.run,
                   <<Ev("late", t.h, t.a, t.action.type)>> \o out.did \o
                   (IF out.thrown THEN <<Ev("unhandled", t.h, t.a, out.msg)>>
                    ELSE <<>>))
      /\ UNCHANGED <<around, hooks, hist, setup, pc, ev, arg, queue, idx, ai, result, now,
                     nextId, runs>>

Next ==
    \/ \E p \in Procs :
         \/ Start(p)
         \/ Find(p)
         \/ FindFails(p)
         \/ Populate(p)
         \/ NextHook(p)
         \/ Schedule(p)
         \/ Execute(p)
         \/ Record(p)
         \/ Save(p)
         \/ SaveFails(p)
    \/ TimerFires

Spec == Init /\ [][Next]_vars

SpecSeq == InitSeq /\ [][Next]_vars

SpecCap == InitCap /\ [][Next]_vars

SpecEval == InitEval /\ [][Next]_vars

SpecPair == InitPair /\ [][Next]_vars
SpecRace == InitRace /\ [][Next]_vars

SpecActs == InitActs /\ [][Next]_vars

(* ---------------------- the writers of invoices ----------------------- *)
\* generateInvoice (part_009 lines 365-418), autoGenerateInvoice (part_009
\* lines 528-593) and POST /generate (part_010 lines 28-112) for one and the
\* same booking, each moving from one await to the next: the lookup of an
\* existing invoice, the load of the booking, generateInvoiceId, the save.
TheBooking == 1

\* the generator is called
Call(g) ==
    /\ gen[g].pc = "idle"
    /\ gen' = [gen EXCEPT ![g].pc = "findOne"]
    /\ UNCHANGED <<engine, invoiceDocs, counter, bookings, job, triggered>>

\* Invoice.findOne({ bookingId }) answers: with an invoice the generator
\* returns, without one it goes on to load the booking
FindOne(g) ==
    /\ gen[g].pc = "findOne"
    /\ gen' = [gen EXCEPT ![g].pc =
                  IF \E i \in DOMAIN invoiceDocs :
                        invoiceDocs[i].bookingId = TheBooking
                  THEN "returned" ELSE "load"]
    /\ UNCHANGED <<engine, invoiceDocs, counter, bookings, job, triggered>>

\* the booking is populated (generateInvoice) or loaded with its references
LoadBooking(g) ==
    /\ gen[g].pc = "load"
    /\ gen' = [gen EXCEPT ![g].pc = "mint"]
    /\ UNCHANGED <<engine, invoiceDocs, counter, bookings, job, triggered>>

\* generateInvoiceId: getNextSequence increments the counter document with
\* $inc and returns the new value
GenerateInvoiceId(g) ==
    /\ gen[g].pc = "mint"
    /\ counter' = counter + 1
    /\ gen' = [gen EXCEPT ![g].pc = "save", ![g].invoiceId = counter + 1]
    /\ UNCHANGED <<engine, invoiceDocs, bookings, job, triggered>>

\* invoice.save(): the insert is refused only by the unique index on
\* invoiceId; there is no unique index on bookingId
SaveInvoice(g) ==
    /\ gen[g].pc = "save"
    /\ IF \E i \in DOMAIN invoiceDocs :
             invoiceDocs[i].invoiceId = gen[g].invoiceId
       THEN /\ gen' = [gen EXCEPT ![g].pc = "threw"]
            /\ UNCHANGED invoiceDocs
       ELSE /\ invoiceDocs' =
                  Append(invoiceDocs,
                         [invoiceId |-> gen[g].invoiceId,
                          bookingId |-> TheBooking, by |-> g])
            /\ gen' = [gen EXCEPT ![g].pc = "saved"]
    /\ UNCHANGED <<engine, counter, bookings, job, triggered>>

NextInvoices ==
    \E g \in Generators :
        \/ Call(g)
        \/ FindOne(g)
        \/ LoadBooking(g)
        \/ GenerateInvoiceId(g)
        \/ SaveInvoice(g)

\* the three writers called for one booking, in any interleaving
SpecInvoices == InitIdle /\ [][NextInvoices]_vars

(* --------------------- the feedback reminder job ---------------------- *)
\* The callback of cron.schedule in initCronJobs (cron/scheduler.js lines
\* 13-62), each run moving from one await to the next.  The scheduler
\* starts a run every hour whether or not the run before it has ended.
\* The bookings of the model are Completed for more than two days; booking
\* 2 has a feedback.

\* the booking a run is processing
AtBooking(r) == job[r].found[job[r].i]

\* lines 13-26: the scheduler starts a run; the job is enabled
Fire(r) ==
    /\ job[r].pc = "idle"
    /\ \A q \in JobRuns : q < r => job[q].pc # "idle"
    /\ job' = [job EXCEPT ![r].pc = "find"]
    /\ UNCHANGED <<engine, invoiceDocs, counter, gen, bookings, triggered>>

\* lines 31-35: Booking.find answers with the bookings whose
\* feedbackReminderSent is false
FindBookings(r) ==
    /\ job[r].pc = "find"
    /\ LET open == {b \in Bookings : ~bookings[b].feedbackReminderSent}
           found == SelectSeq(<<1, 2>>, LAMBDA b : b \in open)
       IN  job' = [job EXCEPT ![r] =
                     [pc |-> IF found = <<>> THEN "done" ELSE "exists",
                      found |-> found, i |-> 1]]
    /\ UNCHANGED <<engine, invoiceDocs, counter, gen, bookings, triggered>>

\* lines 41-48: Feedback.exists answers
FeedbackExists(r) ==
    /\ job[r].pc = "exists"
    /\ job' = [job EXCEPT ![r].pc =
                  IF bookings[AtBooking(r)].feedback THEN "save"
                  ELSE "trigger"]
    /\ UNCHANGED <<engine, invoiceDocs, counter, gen, bookings, triggered>>

\* line 51: triggerAutomation('feedback.reminder', booking) returns
Trigger(r) ==
    /\ job[r].pc = "trigger"
    /\ triggered' = [triggered EXCEPT ![AtBooking(r)] = @ + 1]
    /\ job' = [job EXCEPT ![r].pc = "save"]
    /\ UNCHANGED <<engine, invoiceDocs, counter, gen, bookings>>

\* lines 45-46 and 54-55: booking.save() stores feedbackReminderSent = true;
\* lines 39 and 58: the loop goes to the next booking, or ends
MarkSent(r) ==
    /\ job[r].pc = "save"
    /\ bookings' = [bookings EXCEPT
                       ![AtBooking(r)].feedbackReminderSent = TRUE]
    /\ job' = [job EXCEPT
                  ![r].i = @ + 1,
                  ![r].pc = IF job[r].i + 1 > Len(job[r].found) THEN "done"
                            ELSE "exists"]
    /\ UNCHANGED <<engine, invoiceDocs, counter, gen, triggered>>

\* lines 46, 55 and 59-61: booking.save() throws; the catch of the job ends
\* the run
MarkSentFails(r) ==
    /\ job[r].pc = "save"
    /\ job' = [job EXCEPT ![r].pc = "done"]
    /\ UNCHANGED <<engine, invoiceDocs, counter, gen, bookings, triggered>>

NextJob ==
    \E r \in JobRuns :
        \/ Fire(r)
        \/ FindBookings(r)
        \/ FeedbackExists(r)
        \/ Trigger(r)
        \/ MarkSent(r)
        \/ MarkSentFails(r)

\* two runs of the job, one after the other or overlapping
SpecJob == InitIdle /\ [][NextJob]_vars

(* ====================================================================== *)
(* The claims                                                             *)
(* ====================================================================== *)
\* the trace of the invocation process p ran last, while it is kept
Has(p) == arg[p] \in DOMAIN calls
Trace(p) == calls[arg[p]]
Done(p) == Has(p) /\ pc[p] = "idle" /\ result[p] = "resolved"
\* the positions of the trace with an event of hook h of one of the kinds K
At(p, K, h) == {i \in DOMAIN Trace(p) : Trace(p)[i].k \in K /\ Trace(p)[i].h = h}
\* the positions of the trace with an event of one of the kinds K
AtAny(p, K) == {i \in DOMAIN Trace(p) : Trace(p)[i].k \in K}
\* the hooks the invocation loaded
LoadedBy(p) == {queue[p][i].id : i \in DOMAIN queue[p]}
Prio(h) == hooks[h].priority

\* C1: whatever the collaborators do, the promise of triggerAutomation is
\* never rejected: an invocation is pending while it runs and resolved once
\* it has ended.
C1_NeverRaises ==
    \A p \in Procs :
        /\ result[p] # "rejected"
        /\ pc[p] = "idle" => result[p] \in {"none", "resolved"}
        /\ pc[p] # "idle" => result[p] = "pending"

\* an invocation has ended resolved although an action threw and the save
\* of the failure entry threw as well
C1_Witness ==
    \E p \in Procs :
        /\ Done(p)
        /\ At(p, {"throw"}, Trace(p)[Len(Trace(p))].h) # {}
        /\ Trace(p)[Len(Trace(p))].k = "saveThrow"

C3_AllActionsFirst ==
    \A p \in Procs : \A H, L \in HookIds :
        (Has(p) /\ Prio(H) > Prio(L)) =>
            \A i \in At(p, {"exec", "late", "log"}, H) :
            \A j \in At(p, {"exec", "late"}, L) : i < j

\* C3 as amended: the inline actions of the higher-priority hook are run,
\* its delayed actions are scheduled and its log entry is persisted before
\* any action of the lower-priority hook is run or scheduled; when the
\* lower-priority hook starts, the higher-priority one has been skipped or
\* has its log entry.
C3_InlineActionsFirst ==
    \A p \in Procs : \A H, L \in HookIds :
        (Has(p) /\ {H, L} \subseteq LoadedBy(p) /\ Prio(H) > Prio(L)) =>
            /\ \A i \in At(p, {"exec", "sched", "throw", "skip", "log"}, H) :
               \A j \in At(p, {"exec", "sched", "late", "skip", "log"}, L) :
                  i < j
            /\ \A j \in At(p, {"exec", "sched", "skip", "log"}, L) :
                  \E i \in At(p, {"skip", "log"}, H) : i < j

\* both hooks ran their actions in one invocation, the higher-priority one
\* with a delayed action that its timer ran after the lower one's action
C3_Witness ==
    \E p \in Procs : \E H, L \in HookIds :
        /\ Has(p)
        /\ Prio(H) > Prio(L)
        /\ At(p, {"log"}, H) # {}
        /\ \E i \in At(p, {"late"}, H) : \E j \in At(p, {"exec"}, L) : j < i

\* C4: the stored executionLogs of every hook holds at most 100 entries,
\* in every reachable state.
C4_LogsAtMostCap ==
    \A h \in HookIds : Len(hooks[h].executionLogs) <= LogCap

\* every entry persisted for hook h, the earlier ones first
LastUpTo(sq, n) == IF Len(sq) > n THEN Last(sq, n) ELSE sq
AllEntries(h) ==
    EarlierLogs(hooks[h].triggerEvent, setup.earlier[h]) \o hist[h]

\* C5: after sequential executions the stored executionLogs of a hook are
\* the last min(n, 100) of the n entries its executions persisted, in the
\* order they were persisted, n being executionCount + failureCount.
C5_KeepsMostRecent ==
    \A h \in HookIds :
        LET all == AllEntries(h)
            n == hooks[h].executionCount + hooks[h].failureCount
        IN  /\ n = Len(all)
            /\ Len(hooks[h].executionLogs) = (IF n < LogCap THEN n ELSE LogCap)
            /\ hooks[h].executionLogs = LastUpTo(all, LogCap)

\* a hook has more than 100 entries behind it, the new ones a success and
\* a failure, and its oldest entry is gone
C5_Witness ==
    \E h \in HookIds :
        /\ Len(AllEntries(h)) > LogCap
        /\ \E i, j \in DOMAIN hist[h] : hist[h][i].success /\ ~hist[h][j].success
        /\ hooks[h].executionLogs[1] # AllEntries(h)[1]

C7_OneOutcomeCounted ==
    [][\A p \in Procs :
         (pc[p] \in {"save_try", "save_catch"} /\ pc'[p] = "hook"
            /\ Len(Current(p).pushed) = 1) =>
         LET h == Current(p).id
             e == Current(p).pushed[1]
         IN  /\ hooks'[h].executionLogs =
                   LastUpTo(Append(hooks[h].executionLogs, e), LogCap)
             /\ e.data = [event |-> ev[p], dataId |-> arg[p]]
             /\ IF At(p, {"throw"}, h) = {}
                THEN /\ e.success
                     /\ hooks'[h].executionCount = hooks[h].executionCount + 1
                     /\ hooks'[h].failureCount = hooks[h].failureCount
                ELSE /\ ~e.success
                     /\ \E i \in At(p, {"throw"}, h) : Trace(p)[i].x = e.error
                     /\ hooks'[h].failureCount = hooks[h].failureCount + 1
                     /\ hooks'[h].executionCount = hooks[h].executionCount
    ]_vars

\* a hook counted a success and a failure of this behaviour
C7_Witness ==
    \E h \in HookIds :
        /\ Len(hist[h]) = 2
        /\ hist[h][1].success
        /\ ~hist[h][2].success
        /\ hist[h][2].error # ""
        /\ hist[h][1].data.dataId # hist[h][2].data.dataId

\* C8 as stated: once an attempt appended a log entry, lastExecutedAt is
\* set and not older than the executedAt of the newest log entry.
C8_LastExecutedAtNewest ==
    \A h \in HookIds :
        hist[h] # <<>> =>
            /\ hooks[h].lastExecutedAt # <<>>
            /\ hooks[h].lastExecutedAt[1] >=
                  hooks[h].executionLogs[Len(hooks[h].executionLogs)].executedAt

\* C8 as amended: a save that persists a success entry leaves lastExecutedAt
\* set to a reading not later than the executedAt of that entry; every
\* other step, the save of a failure entry included, leaves lastExecutedAt
\* as it was.
C8_StampedBySuccessOnly ==
    [][\A h \in HookIds :
         LET added == SubSeq(hist'[h], Len(hist[h]) + 1, Len(hist'[h])) IN
         IF \E i \in DOMAIN added : added[i].success
         THEN /\ hooks'[h].lastExecutedAt # <<>>
              /\ \E i \in DOMAIN added :
                    /\ added[i].success
                    /\ hooks'[h].lastExecutedAt[1] <= added[i].executedAt
         ELSE hooks'[h].lastExecutedAt = hooks[h].lastExecutedAt
    ]_vars

\* the newest entry of a hook is a failure of this behaviour, later than
\* its lastExecutedAt
C8_Witness ==
    \E h \in HookIds :
        /\ hist[h] # <<>>
        /\ ~hist[h][Len(hist[h])].success
        /\ hooks[h].lastExecutedAt # <<>>
        /\ hooks[h].lastExecutedAt[1] < hist[h][Len(hist[h])].executedAt

\* the statistics a hook was created with, or had before the behaviour
Untouched(h) ==
    /\ hist[h] = <<>>
    /\ hooks[h] = NewHook(hooks[h], setup.earlier[h])

\* C9: a hook the invocation skipped has none of its actions run, scheduled
\* or run by a timer, nothing logged and nothing thrown in that invocation,
\* and no log entry for its payload; while that invocation is the only one
\* of the behaviour, the statistics of the hook are those it started with.
C9_SkippedHookUntouched ==
    \A p \in Procs : \A h \in HookIds :
        (Has(p) /\ At(p, {"skip"}, h) # {}) =>
            /\ At(p, {"exec", "sched", "late", "throw", "saveThrow", "log"}, h)
                  = {}
            /\ \A i \in DOMAIN hist[h] : hist[h][i].data.dataId # arg[p]
            /\ runs = 1 => Untouched(h)

\* a hook was skipped after the hook before it changed the status its
\* condition tests
C9_Witness ==
    \E p \in Procs : \E h \in HookIds :
        /\ Done(p)
        /\ At(p, {"skip"}, h) # {}
        /\ data[arg[p]].status = "Confirmed"
        /\ Len(hooks[h].conditions) > 0

\* the event name of the invocation with payload r, once find was called
EventOf(r) == calls[r][1].x

\* C10: every step an invocation takes for a hook is for an active hook
\* bound to its event; log entries are persisted only for such hooks; an
\* inactive hook keeps its statistics; with no matching hook, as for an
\* event outside the enumeration, the invocation calls nothing but find
\* and leaves the payload as passed.
C10_OnlyMatchingHooks ==
    /\ \A r \in DOMAIN calls : \A i \in DOMAIN calls[r] :
          calls[r][i].h # 0 =>
              /\ hooks[calls[r][i].h].isActive
              /\ hooks[calls[r][i].h].triggerEvent = EventOf(r)
    /\ \A h \in HookIds :
          /\ \A i \in DOMAIN hist[h] :
                hooks[h].isActive /\ hist[h][i].data.event = hooks[h].triggerEvent
          /\ ~hooks[h].isActive => Untouched(h)
    /\ \A r \in DOMAIN calls :
          (calls[r] # <<>> /\ Matching(EventOf(r)) = {}) =>
              /\ \A i \in DOMAIN calls[r] : calls[r][i].k \in {"find", "findThrow"}
              /\ data[r] = Payload(data[r].kind, r, data[r].email, data[r].fcmToken)
    /\ \A e \in {in[1] : in \in Inputs} \ TriggerEvents : Matching(e) = {}

\* an invocation ended after find alone although the collection holds an
\* inactive hook bound to its event and an active hook bound to another
C10_Witness ==
    \E p \in Procs : \E h, g \in HookIds :
        /\ Done(p)
        /\ Len(Trace(p)) = 1
        /\ ~hooks[h].isActive /\ hooks[h].triggerEvent = ev[p]
        /\ hooks[g].isActive /\ hooks[g].triggerEvent # ev[p]

(* ----------------------- claims on the conditions --------------------- *)
\* whether every condition of hook h holds for the payload of invocation p
AllHold(p, h) ==
    \A i \in DOMAIN hooks[h].conditions :
        conditionHolds(hooks[h].conditions[i], data[arg[p]])
Skipped(p, h) == At(p, {"skip"}, h) # {}
Passed(p, h) == At(p, {"exec", "sched"}, h) # {}

\* C17: evaluateConditions returns true exactly when every condition of the
\* list holds for the payload, and true for the empty list; accordingly a
\* hook is skipped only when some condition fails, goes on to its actions
\* only when all hold, and a processed hook did one of the two.
C17_AndSemantics ==
    \A p \in Procs : \A h \in HookIds :
        Has(p) =>
            /\ evaluateConditions(hooks[h].conditions, data[arg[p]])
                  = AllHold(p, h)
            /\ evaluateConditions(<<>>, data[arg[p]])
            /\ Skipped(p, h) => ~AllHold(p, h)
            /\ Passed(p, h) => AllHold(p, h)
            /\ (Done(p) /\ h \in LoadedBy(p)) => (Skipped(p, h) \/ Passed(p, h))

\* a hook was skipped because the second of its two conditions fails while
\* the first holds
C17_Witness ==
    \E p \in Procs : \E h \in HookIds :
        /\ Done(p)
        /\ Skipped(p, h)
        /\ Len(hooks[h].conditions) = 2
        /\ conditionHolds(hooks[h].conditions[1], data[arg[p]])
        /\ ~conditionHolds(hooks[h].conditions[2], data[arg[p]])

\* C18: a hook with a gt, lt, gte or lte condition whose field resolves to
\* undefined in the payload never goes on to its actions: evaluateConditions
\* returns false for it.
C18_UndefinedFails ==
    \A p \in Procs : \A h \in HookIds :
        (Has(p) /\ Passed(p, h)) =>
            \A i \in DOMAIN hooks[h].conditions :
                LET c == hooks[h].conditions[i] IN
                ~( /\ c.operator \in {"gt", "lt", "gte", "lte"}
                   /\ getNestedValue(data[arg[p]], c.field) = Undef )

\* C19: a hook with a condition whose operator is outside the enum is
\* non-matching for every payload: evaluateConditions returns false, none of
\* its actions is run or scheduled, nothing is logged or thrown for it, its
\* statistics stay as they were, and once processed it was skipped.
C19_UnknownOperatorSkips ==
    \A p \in Procs : \A h \in HookIds :
        ( /\ Has(p)
          /\ \E i \in DOMAIN hooks[h].conditions :
                hooks[h].conditions[i].operator \notin KnownOperators )
        =>
        ( /\ ~evaluateConditions(hooks[h].conditions, data[arg[p]])
          /\ At(p, {"exec", "sched", "late", "throw", "saveThrow", "log"}, h)
                = {}
          /\ Untouched(h)
          /\ (Done(p) /\ h \in LoadedBy(p)) => Skipped(p, h) )

\* a hook whose first condition holds and whose second has an operator
\* outside the enum was skipped
C19_Witness ==
    \E p \in Procs : \E h \in HookIds :
        /\ Done(p)
        /\ Skipped(p, h)
        /\ Len(hooks[h].conditions) = 2
        /\ conditionHolds(hooks[h].conditions[1], data[arg[p]])
        /\ hooks[h].conditions[2].operator \notin KnownOperators
        /\ hooks[h].conditions[1].operator \in KnownOperators

(* --------------------- claims on delayed actions ---------------------- *)
\* in the trace of invocation p: the actions of hook h run inline have no
\* delay, those scheduled or run by a timer have one and were scheduled
\* first, and a log entry of a hook none of whose inline actions threw and
\* whose save did not throw is a success entry, whatever its delayed
\* actions did since
DelayedApart(p, h) ==
    /\ \A i \in At(p, {"exec"}, h) :
          ~(hooks[h].actions[Trace(p)[i].a].delay > 0)
    /\ \A i \in At(p, {"sched", "late"}, h) :
          hooks[h].actions[Trace(p)[i].a].delay > 0
    /\ \A i \in At(p, {"late"}, h) :
          \E j \in At(p, {"sched"}, h) :
              j < i /\ Trace(p)[j].a = Trace(p)[i].a
    /\ At(p, {"throw", "saveThrow"}, h) = {} =>
          \A i \in At(p, {"log"}, h) : Trace(p)[i].x = "success"

\* C11: an action with delay > 0 is scheduled and never run inline; the
\* log entry of its hook is a success entry whenever the inline actions
\* and the save succeed; and the step in which a timer runs a delayed
\* action, failing or not, leaves the statistics and the log entries of
\* every hook as they were.
C11_DelayedNotAwaited ==
    [][ /\ (timers' # timers /\ timers' \subseteq timers) =>
              (hooks' = hooks /\ hist' = hist)
        /\ \A p \in Procs : \A h \in HookIds :
              (Has(p) => DelayedApart(p, h))'
    ]_vars

\* the delayed action of a hook failed after the success entry of the hook
\* was persisted, and the hook counts no failure
C11_Witness ==
    \E p \in Procs : \E h \in HookIds :
        /\ Has(p)
        /\ \E i \in At(p, {"log"}, h) : \E j \in At(p, {"unhandled"}, h) :
              i < j /\ Trace(p)[i].x = "success"
        /\ hooks[h].failureCount = 0
        /\ Len(hooks[h].executionLogs) = 1
        /\ hooks[h].executionLogs[1].success

(* ------------------------ claims on the counters ---------------------- *)
\* C12: no step of any behaviour, concurrent invocations of the same hook
\* included, makes the stored executionCount or failureCount of a hook
\* smaller.
C12_CountersNeverDecrease ==
    [][\A h \in HookIds :
         /\ hooks'[h].executionCount >= hooks[h].executionCount
         /\ hooks'[h].failureCount >= hooks[h].failureCount
    ]_vars

(* ------------------------ claims on the actions ----------------------- *)
\* the enum of automationHookSchema.actions.type
ActionTypes ==
    {"send_email", "send_sms", "send_push_notification", "update_status",
     "assign_technician", "generate_invoice", "request_feedback",
     "send_payment_reminder"}

\* the kinds of event with which the engine starts something new
Boundary == {"find", "skip", "exec", "sched", "late", "log", "saveThrow"}
\* the positions at which an action was run, inline or by its timer
Runs(p) == AtAny(p, {"exec", "late"})
\* the action run at position j
ActionAt(p, j) == hooks[Trace(p)[j].h].actions[Trace(p)[j].a]
\* the positions of what the action run at j did: its collaborator calls
\* and the error it threw
Seg(p, j) ==
    {i \in (j + 1)..Len(Trace(p)) :
        \A m \in (j + 1)..i : Trace(p)[m].k \notin Boundary}
Kinds(p, j) == {Trace(p)[i].k : i \in Seg(p, j)}
Threw(p, j) ==
    {Trace(p)[i].x : i \in {i \in Seg(p, j) :
                               Trace(p)[i].k \in {"throw", "unhandled"}}}
\* the action run at j is the last thing the invocation did
Latest(p, j) == \A m \in (j + 1)..Len(Trace(p)) : Trace(p)[m].k \notin Boundary

\* the runs of generate_invoice that stored an invoice
Invoiced(p) ==
    {j \in Runs(p) : /\ ActionAt(p, j).type = "generate_invoice"
                     /\ "saveInvoice" \in Kinds(p, j)
                     /\ Threw(p, j) = {}}

\* C13: the invoices stored for a booking are those of the runs of
\* generate_invoice that saved one, and there is at most one: a run of
\* generate_invoice after one that stored an invoice only looks the invoice
\* up, mints no id, saves nothing and throws nothing but a failure of the
\* lookup itself.
C13_InvoiceOnce ==
    \A p \in Procs :
        Has(p) =>
            /\ Len(data[arg[p]].invoices) = Cardinality(Invoiced(p))
            /\ Len(data[arg[p]].invoices) <= 1
            /\ \A j1 \in Invoiced(p) : \A j2 \in Runs(p) :
                  (j1 < j2 /\ ActionAt(p, j2).type = "generate_invoice") =>
                      /\ Kinds(p, j2) \subseteq
                            {"findInvoice", "throw", "unhandled"}
                      /\ Threw(p, j2) \subseteq {"db failed"}

\* generate_invoice ran twice inline without an error, the second time as a
\* lookup only, and one invoice is stored
C13_Witness ==
    \E p \in {q \in Procs : Has(q)} : \E j1, j2 \in AtAny(p, {"exec"}) :
        /\ j1 \in Invoiced(p)
        /\ j1 < j2
        /\ ActionAt(p, j2).type = "generate_invoice"
        /\ Kinds(p, j2) = {"findInvoice"}
        /\ Len(data[arg[p]].invoices) = 1

\* the types whose function is sendPushNotification
PushTypes ==
    {"send_push_notification", "request_feedback", "send_payment_reminder"}

\* the action run at position j meets a no-op rule: its type is not a case
\* of the switch of executeAction, or it is a send_email whose recipient
\* resolves to the empty string, or a push for a user without token
NoOp(p, j) ==
    LET action == ActionAt(p, j)
        d == data[arg[p]]
    IN  \/ action.type \notin ActionTypes
        \/ /\ action.type = "send_email"
           /\ interpolate(action.config.to, d) = ""
           /\ d.email = ""
        \/ /\ action.type \in PushTypes
           /\ d.fcmToken = ""


\* the first thing the loop of triggerAutomation did after the action run at
\* j, 0 when nothing; what a timer ran in between is none of the loop's steps
After(p, j) ==
    LET later == {i \in (j + 1)..Len(Trace(p)) :
                     Trace(p)[i].k \in Boundary \ {"late"}}
    IN  IF later = {} THEN 0
        ELSE CHOOSE i \in later : \A m \in later : i <= m

\* C14: an action that meets a no-op rule (a type the switch does not know,
\* a send_email whose recipient resolves to empty, a push for a user without
\* token) calls neither the mailer nor the pusher and throws nothing but a
\* failure of the lookup made before the rule; when it ran inline and did
\* not throw, the engine goes on with the next action of the hook, or after
\* the last action with the save of the hook, and a hook none of whose
\* actions or saves threw has a success entry once the invocation is done.
C14_NoOpRules ==
    \A p \in Procs :
        Has(p) =>
            \A j \in Runs(p) :
                NoOp(p, j) =>
                    LET e == Trace(p)[j]
                        n == After(p, j)
                    IN  /\ Kinds(p, j) \cap {"mail", "push"} = {}
                        /\ Threw(p, j) \subseteq
                              (CASE ActionAt(p, j).type = "send_email" ->
                                        {"populate failed"}
                                 [] ActionAt(p, j).type \in PushTypes ->
                                        {"db failed"}
                                 [] OTHER -> {})
                        /\ (e.k = "exec" /\ Threw(p, j) = {} /\ n # 0) =>
                              /\ Trace(p)[n].h = e.h
                              /\ IF e.a < Len(hooks[e.h].actions)
                                 THEN /\ Trace(p)[n].k \in {"exec", "sched"}
                                      /\ Trace(p)[n].a = e.a + 1
                                 ELSE Trace(p)[n].k \in {"log", "saveThrow"}
                        /\ (/\ e.k = "exec"
                            /\ Done(p)
                            /\ \A i \in DOMAIN Trace(p) :
                                  Trace(p)[i].h = e.h =>
                                      Trace(p)[i].k \notin {"throw", "saveThrow"})
                           => \E i \in At(p, {"log"}, e.h) :
                                  i > j /\ Trace(p)[i].x = "success"

\* a hook ran a send_email without recipient, three pushes for a user without
\* token and an action of unknown type, then updated the status, and has
\* its success entry
C14_Witness ==
    \E p \in {q \in Procs : Done(q)} : \E h \in HookIds :
        /\ \E j \in At(p, {"exec"}, h) :
              NoOp(p, j) /\ ActionAt(p, j).type = "send_email"
        /\ \E j \in At(p, {"exec"}, h) :
              NoOp(p, j) /\ ActionAt(p, j).type = "request_feedback"
        /\ \E j \in At(p, {"exec"}, h) :
              NoOp(p, j) /\ ActionAt(p, j).type = "send_push_notification"
        /\ \E j \in At(p, {"exec"}, h) :
              NoOp(p, j) /\ ActionAt(p, j).type = "send_fax"
        /\ Cardinality({j \in At(p, {"exec"}, h) : NoOp(p, j)}) = 5
        /\ AtAny(p, {"mail", "push", "throw"}) = {}
        /\ data[arg[p]].status = "Confirmed"
        /\ \E i \in At(p, {"log"}, h) : Trace(p)[i].x = "success"

\* the calls of the mailer made by the action run at j
Mails(p, j) == {i \in Seg(p, j) : Trace(p)[i].k = "mail"}

\* the recipient sendEmail resolves for the payload d
Recipient(config, d) ==
    IF interpolate(config.to, d) # "" THEN interpolate(config.to, d)
    ELSE d.email

\* C15: a send_email that got past its populate calls the mailer exactly
\* once when the recipient is not empty and not at all when it is; the
\* recipient is the interpolated config.to when that is not empty and else
\* the email of the linked user, the subject is the interpolated
\* config.subject and the html the interpolated config.body, or the subject
\* in a paragraph when the body is empty.  With to "{{userId.email}}" and
\* the email "a@x.com" of the user the mailer receives to = "a@x.com".
C15_SendEmail ==
    \A p \in Procs :
        Has(p) =>
            \A j \in Runs(p) :
                (ActionAt(p, j).type = "send_email" /\ Latest(p, j)) =>
                    LET config == ActionAt(p, j).config
                        d == data[arg[p]]
                        subject == interpolate(config.subject, d)
                        body == interpolate(config.body, d)
                    IN  /\ Cardinality(Mails(p, j)) <= 1
                        /\ \A i \in Mails(p, j) :
                              /\ Trace(p)[i].x.to = Recipient(config, d)
                              /\ Trace(p)[i].x.to # ""
                              /\ Trace(p)[i].x.subject = subject
                              /\ Trace(p)[i].x.html =
                                    IF body # "" THEN body
                                    ELSE "<p>" \o subject \o "</p>"
                              /\ (config.to = UserEmailTemplate
                                  /\ d.email = "a@x.com")
                                 => Trace(p)[i].x.to = "a@x.com"
                        /\ "populate failed" \notin Threw(p, j) =>
                              (Mails(p, j) = {} <=> Recipient(config, d) = "")

\* a send_email whose config.to is the template of the user's email called
\* the mailer with to = "a@x.com", the email of the linked user
C15_Witness ==
    \E p \in {q \in Procs : Has(q)} : \E j \in Runs(p) :
        /\ ActionAt(p, j).type = "send_email"
        /\ Latest(p, j)
        /\ ActionAt(p, j).config.to = UserEmailTemplate
        /\ data[arg[p]].email = "a@x.com"
        /\ \E i \in Mails(p, j) : Trace(p)[i].x.to = "a@x.com"

\* the events a step added to the trace of payload r
Added(r) == SubSeq(calls'[r], Len(calls[r]) + 1, Len(calls'[r]))

\* C16: a run of assign_technician for a booking in whose city no technician
\* is found leaves assignedTechnician, assignedAt, status and statusHistory
\* of the booking as they were, does not save the booking and throws nothing
\* but a failure of the populate or of the query itself; when done, a hook
\* that ran it inline and none of whose actions or saves threw has a success
\* entry.
C16_NoTechnician ==
    [][ /\ \A r \in DOMAIN data :
              (/\ r \in DOMAIN calls
               /\ r \in DOMAIN calls'
               /\ Len(calls'[r]) > Len(calls[r])
               /\ Added(r)[1].k \in {"exec", "late"}
               /\ Added(r)[1].x = "assign_technician"
               /\ data[r].kind = "Booking"
               /\ Directory(data[r].city) = <<>>) =>
                  /\ data'[r].assignedTechnician = data[r].assignedTechnician
                  /\ data'[r].assignedAt = data[r].assignedAt
                  /\ data'[r].status = data[r].status
                  /\ data'[r].statusHistory = data[r].statusHistory
                  /\ \A i \in DOMAIN Added(r) :
                        /\ Added(r)[i].k # "saveBooking"
                        /\ Added(r)[i].k \in {"throw", "unhandled"} =>
                              Added(r)[i].x \in {"populate failed", "db failed"}
        /\ \A p \in Procs :
              (Done(p) =>
                 \A j \in AtAny(p, {"exec"}) :
                    (/\ ActionAt(p, j).type = "assign_technician"
                     /\ Directory(data[arg[p]].city) = <<>>
                     /\ \A i \in DOMAIN Trace(p) :
                           Trace(p)[i].h = Trace(p)[j].h =>
                               Trace(p)[i].k \notin {"throw", "saveThrow"})
                    => \E i \in At(p, {"log"}, Trace(p)[j].h) :
                           i > j /\ Trace(p)[i].x = "success")'
      ]_vars

\* assign_technician ran inline for a booking in Goa, where no technician
\* is: the query was made, nothing was thrown or saved, the booking is
\* unassigned and the hook has its success entry
C16_Witness ==
    \E p \in {q \in Procs : Done(q)} : \E j \in AtAny(p, {"exec"}) :
        /\ ActionAt(p, j).type = "assign_technician"
        /\ data[arg[p]].city = "Goa"
        /\ Kinds(p, j) = {"findTechs"}
        /\ data[arg[p]].assignedTechnician = ""
        /\ data[arg[p]].assignedAt = <<>>
        /\ data[arg[p]].statusHistory = <<>>
        /\ \E i \in At(p, {"log"}, Trace(p)[j].h) :
              i > j /\ Trace(p)[i].x = "success"

\* the parts of a template with every placeholder whose value is not blank
\* (undefined, null or the empty string) replaced by the string form of the
\* value
RECURSIVE ReplacedUnlessBlank(_, _)
ReplacedUnlessBlank(parts, d) ==
    IF parts = <<>> THEN ""
    ELSE LET part == Head(parts)
             v == getNestedValue(d, Trim(part.path))
             blank == v.t \in {"undefined", "null"}
                        \/ (v.t = "string" /\ v.s = "")
         IN  (IF part.hole /\ ~blank THEN JsString(v) ELSE part.text)
             \o ReplacedUnlessBlank(Tail(parts), d)

\* C20: the subject interpolate hands to the mailer is the template with
\* each {{path}} replaced by the string form of the value of the path in
\* the payload whenever that value is not undefined, null or the empty
\* string (numbers and booleans included), and with the placeholder left as
\* it is exactly when the value is undefined, null or empty; a path whose
\* intermediate segment is missing resolves to undefined without an error.
C20_InterpolateReplaces ==
    \A p \in Procs :
        Has(p) =>
            \A j \in Runs(p) :
                (ActionAt(p, j).type = "send_email" /\ Latest(p, j)) =>
                    \A i \in Mails(p, j) :
                        Trace(p)[i].x.subject =
                            ReplacedUnlessBlank(
                                Parts(ActionAt(p, j).config.subject),
                                data[arg[p]])

(* ------------------- claims on the payload's state -------------------- *)
\* the types of action whose purpose is a change of the booking's state
StateActions == {"update_status", "assign_technician"}

\* the state of a payload that belongs to the payload itself
Own(d) ==
    [status |-> d.status, assignedTechnician |-> d.assignedTechnician,
     assignedAt |-> d.assignedAt, statusHistory |-> d.statusHistory]

\* C21: every step that changes status, assignedTechnician, assignedAt or
\* statusHistory of a payload is the run, inline or by its timer, of an
\* update_status or assign_technician action; a payload on which no such
\* action was run has these fields as the caller passed them, whatever other
\* actions ran or failed.
C21_OwnStateOnlyByStateActions ==
    [][ /\ \A r \in DOMAIN data \cap DOMAIN data' :
              Own(data'[r]) # Own(data[r]) =>
                  /\ r \in DOMAIN calls /\ r \in DOMAIN calls'
                  /\ Len(calls'[r]) > Len(calls[r])
                  /\ Added(r)[1].k \in {"exec", "late"}
                  /\ Added(r)[1].x \in StateActions
        /\ \A p \in Procs :
              ((Has(p) /\ \A j \in Runs(p) :
                             ActionAt(p, j).type \notin StateActions)
               => Own(data[arg[p]]) = Own(Payload("Booking", 0, "", "")))'
      ]_vars

\* an invocation is done in which send_email ran and an action threw, no
\* update_status or assign_technician was run, and the booking is as passed
C21_Witness ==
    \E p \in {q \in Procs : Done(q)} :
        /\ \E j \in Runs(p) : ActionAt(p, j).type = "send_email"
        /\ AtAny(p, {"throw"}) # {}
        /\ AtAny(p, {"mail"}) # {}
        /\ \A j \in Runs(p) : ActionAt(p, j).type \notin StateActions
        /\ Own(data[arg[p]]) = Own(Payload("Booking", 0, "", ""))

\* C22: the hooks an invocation loaded are processed by descending
\* priority, and hooks of equal priority in the order of their creation,
\* the earlier hook first.
C22_PriorityThenCreation ==
    \A p \in Procs :
        \A i, j \in DOMAIN queue[p] :
            i < j =>
                \/ Prio(queue[p][i].id) > Prio(queue[p][j].id)
                \/ /\ Prio(queue[p][i].id) = Prio(queue[p][j].id)
                   /\ queue[p][i].id < queue[p][j].id

(* ----------------------- claims on concurrency ------------------------ *)
\* the copy of hook h the invocation p loaded and worked on
Copy(p, h) ==
    queue[p][CHOOSE i \in DOMAIN queue[p] : queue[p][i].id = h]

\* invocation p loaded hook h, ran it and its save of the success entry was
\* applied
Succeeded(p, h) ==
    /\ Done(p)
    /\ h \in LoadedBy(p)
    /\ \E i \in At(p, {"log"}, h) : Trace(p)[i].x = "success"
    /\ At(p, {"throw", "saveThrow"}, h) = {}

\* C23: of two invocations that both executed a hook with success, when
\* both loaded the hook in the same stored version (neither saw the save of
\* the other) each wrote the count of its own copy, and the persisted
\* executionCount has grown by 1 and not by 2; when one loaded the hook
\* after the save of the other, it has grown by 2.
C23_LostUpdate ==
    \A p, q \in Procs : \A h \in HookIds :
        (p # q /\ Succeeded(p, h) /\ Succeeded(q, h)) =>
            IF Copy(p, h).doc.v = Copy(q, h).doc.v
            THEN /\ hooks[h].executionCount = Copy(p, h).doc.executionCount
                 /\ hooks[h].executionCount = Copy(q, h).doc.executionCount
                 /\ hooks[h].executionCount = 1
            ELSE hooks[h].executionCount = 2

\* two invocations loaded the new hook 1 before either saved it, both ran it
\* with success and saved: two success entries are stored, and an
\* executionCount of 1
C23_Witness ==
    \E p, q \in Procs :
        /\ p # q
        /\ Succeeded(p, 1) /\ Succeeded(q, 1)
        /\ Copy(p, 1).doc.v = 0 /\ Copy(q, 1).doc.v = 0
        /\ Len(hooks[1].executionLogs) = 2
        /\ \A i \in DOMAIN hooks[1].executionLogs :
              hooks[1].executionLogs[i].success
        /\ hooks[1].executionCount = 1

\* C24: a hook whose save threw in an invocation has no record of that
\* invocation: its persisted executionCount, failureCount and executionLogs
\* are as they were before (here: those of a new hook), and no log entry of
\* the hook was persisted by the invocation.
C24_FailedSaveLeavesNoRecord ==
    \A p \in Procs :
        Has(p) =>
            \A h \in HookIds :
                At(p, {"saveThrow"}, h) # {} =>
                    /\ hooks[h].executionCount = 0
                    /\ hooks[h].failureCount = 0
                    /\ hooks[h].executionLogs = <<>>
                    /\ At(p, {"log"}, h) = {}

(* ----------------------- claims on the bookings ----------------------- *)
\* a step runs an action of the given type on payload r
RunsAction(r, type) ==
    /\ r \in DOMAIN calls
    /\ r \in DOMAIN calls'
    /\ Len(calls'[r]) > Len(calls[r])
    /\ Added(r)[1].k \in {"exec", "late"}
    /\ Added(r)[1].x = type

\* whether the action a step runs on payload r threw
ThrowsIn(r) ==
    \E i \in DOMAIN Added(r) : Added(r)[i].k \in {"throw", "unhandled"}

\* C25: an update_status that does not throw, run on a Booking, sets the
\* status to config.status, makes the status history one entry longer and
\* saves the booking; run on a payload of another kind it changes nothing
\* and throws nothing.
C25_UpdateStatusOneEntry ==
    [][ \A r \in DOMAIN data :
            RunsAction(r, "update_status") =>
                IF data[r].kind = "Booking"
                THEN ~ThrowsIn(r) =>
                        /\ data'[r].status =
                              hooks[Added(r)[1].h]
                                  .actions[Added(r)[1].a].config.status
                        /\ Len(data'[r].statusHistory) =
                              Len(data[r].statusHistory) + 1
                        /\ \E i \in DOMAIN Added(r) :
                              Added(r)[i].k = "saveBooking"
                ELSE data'[r] = data[r] /\ ~ThrowsIn(r)
      ]_vars

\* the user with the given id
UserById(id) == Users[CHOOSE i \in DOMAIN Users : Users[i].id = id]

\* C26: whenever a run of assign_technician gives a booking an assignee,
\* whatever the strategy and the criteria of its config, the assignee is a
\* user with role technician who is approved and of the city of the
\* booking's address, and the booking has status "Assigned" and was saved.
C26_AssigneeIsLocalTechnician ==
    [][ \A r \in DOMAIN data :
            (/\ RunsAction(r, "assign_technician")
             /\ data'[r].assignedTechnician # data[r].assignedTechnician) =>
                /\ UserById(data'[r].assignedTechnician).role = "technician"
                /\ UserById(data'[r].assignedTechnician).isApproved
                /\ UserById(data'[r].assignedTechnician).city = data'[r].city
                /\ data'[r].status = "Assigned"
                /\ \E i \in DOMAIN Added(r) : Added(r)[i].k = "saveBooking"
      ]_vars

\* C27: the invoice a run of generate_invoice stored has the tax rate of
\* config.taxRate, or 18 when none is configured, a tax amount of that rate
\* on the base price, and the discount and the total of the booking.
C27_InvoiceTax ==
    \A p \in Procs :
        Has(p) =>
            \A j \in Invoiced(p) :
                LET config == ActionAt(p, j).config
                    d == data[arg[p]]
                    invoice == d.invoices[1]
                IN  /\ invoice.taxRate =
                          IF config.taxRate = Undef THEN 18
                          ELSE config.taxRate.n
                    /\ invoice.taxAmount * 100 = d.basePrice * invoice.taxRate
                    /\ invoice.discount = d.discount
                    /\ invoice.totalAmount = d.totalAmount

(* ----------------------- claims on the invoices ----------------------- *)
\* C28: in every state the Invoice collection holds at most one invoice of
\* a booking, also when the generate_invoice action, autoGenerateInvoice
\* and POST /generate run concurrently for the booking.
C28_OneInvoicePerBooking ==
    Cardinality({i \in DOMAIN invoiceDocs :
                    invoiceDocs[i].bookingId = TheBooking}) <= 1

(* --------------------- claims on the live payload --------------------- *)
\* C29: when an invocation comes to a hook, the conditions of the hook are
\* tested on the payload as the actions of the hooks before it left it: the
\* hook is run exactly when all its conditions hold for the payload of that
\* moment, so a hook conditioned on status eq X is run when an earlier hook
\* set the status to X and is skipped when X is the status the payload no
\* longer has; the templates of a hook that mails are filled from the same
\* payload.
C29_LivePayload ==
    [][ \A p \in Procs :
            (/\ pc[p] = "hook"
             /\ idx[p] <= Len(queue[p])
             /\ pc'[p] # pc[p] \/ idx'[p] # idx[p]) =>
                LET hook == Current(p).doc
                    d == data[arg[p]]
                IN  /\ pc'[p] = "action" <=>
                          \A i \in DOMAIN hook.conditions :
                              conditionHolds(hook.conditions[i], d)
                    /\ \A i \in DOMAIN hook.conditions :
                          (/\ hook.conditions[i].field = "status"
                           /\ hook.conditions[i].operator = "eq"
                           /\ pc'[p] = "action")
                          => d.status = hook.conditions[i].value.s
                    /\ pc'[p] # "action" =>
                          /\ calls'[arg[p]] =
                                Append(calls[arg[p]],
                                       Ev("skip", Current(p).id, 0, ""))
                          /\ idx'[p] = idx[p] + 1
      ]_vars

\* a hook of priority 10 set the status of a booking passed as Pending to
\* Confirmed, and the hook of priority 5 conditioned on status eq Confirmed
\* then ran and mailed the subject "{{ status }}" as "Confirmed"
C29_Witness ==
    \E p \in {q \in Procs : Done(q)} : \E g, h \in HookIds :
        /\ Prio(g) > Prio(h)
        /\ hooks[h].conditions = <<Cond("status", "eq", Str("Confirmed"))>>
        /\ \E j \in At(p, {"exec"}, g) : \E k \in At(p, {"exec"}, h) :
              /\ j < k
              /\ ActionAt(p, j).type = "update_status"
              /\ ActionAt(p, j).config.status = "Confirmed"
              /\ \E i \in Mails(p, k) : Trace(p)[i].x.subject = "Confirmed"

(* --------------------- claims on the reminder job --------------------- *)
\* C30: the reminder job triggers feedback.reminder at most once for a
\* booking, whether its runs follow one another or overlap.
C30_RemindedOnce ==
    \A b \in Bookings : triggered[b] <= 1

====
